---- MODULE Spec2Model ----
(***************************************************************************)
(* The two-phase camp scheduler of SummerCamp25.                           *)
(*                                                                         *)
(* buildOptimizedPlans exists twice with the same body: in the batch       *)
(* command (src/cmd/schedule/main.go) and in the library package           *)
(* pkg/optimizer (src/unnamed/part_003).  The two copies differ in the     *)
(* conflict predicate sessionsOverlap they call; the variable `program`    *)
(* says which copy runs.                                                   *)
(*                                                                         *)
(* A session is referred to by its position in allSessions (its ingest     *)
(* position); plans, the joint list and the candidate lists hold these     *)
(* positions where the Go code holds copies of the Session value.          *)
(***************************************************************************)
EXTENDS Integers, Sequences, FiniteSets, TLC

(***************************************************************************)
(* Bounds and program constants                                            *)
(***************************************************************************)
MaxSessions == 2

bufferMinutesBetweenSessions == 120

maxInt32 == 2147483647

Programs == {"cmd/schedule", "pkg/optimizer"}

textAvailable == <<"a", "v", "a", "i", "l", "a", "b", "l", "e">>

textStartingSoonLower ==
    <<"s", "t", "a", "r", "t", "i", "n", "g", " ", "s", "o", "o", "n">>

textSpace == <<"s", "p", "a", "c", "e">>

textLeft == <<"l", "e", "f", "t">>

textStartingSoon ==
    <<"S", "t", "a", "r", "t", "i", "n", "g", " ", "S", "o", "o", "n">>

textFull == <<"F", "u", "l", "l">>

\* a *int: <<>> is nil, <<n>> points to n
NilInt == <<>>

(***************************************************************************)
(* strings.ToLower, strings.TrimSpace, strings.Contains on character       *)
(* sequences                                                               *)
(***************************************************************************)
upperLetters ==
    <<"A", "B", "C", "D", "E", "F", "G", "H", "I", "J", "K", "L", "M",
      "N", "O", "P", "Q", "R", "S", "T", "U", "V", "W", "X", "Y", "Z">>

lowerLetters ==
    <<"a", "b", "c", "d", "e", "f", "g", "h", "i", "j", "k", "l", "m",
      "n", "o", "p", "q", "r", "s", "t", "u", "v", "w", "x", "y", "z">>

whiteSpace == {" ", "\t", "\n", "\r"}

lowerOfUpper ==
    [c \in { upperLetters[i] : i \in 1..26 } |->
        lowerLetters[CHOOSE i \in 1..26 : upperLetters[i] = c]]

ToLowerChar(c) == IF c \in DOMAIN lowerOfUpper THEN lowerOfUpper[c] ELSE c

ToLower(s) == [i \in 1..Len(s) |-> ToLowerChar(s[i])]

RECURSIVE TrimLeft(_)
TrimLeft(s) ==
    IF s # <<>> /\ Head(s) \in whiteSpace THEN TrimLeft(Tail(s)) ELSE s

RECURSIVE TrimRight(_)
TrimRight(s) ==
    IF s # <<>> /\ s[Len(s)] \in whiteSpace
    THEN TrimRight(SubSeq(s, 1, Len(s) - 1))
    ELSE s

TrimSpace(s) == TrimRight(TrimLeft(s))

Contains(s, sub) ==
    \E i \in 0..(Len(s) - Len(sub)) : SubSeq(s, i + 1, i + Len(sub)) = sub

(***************************************************************************)
(* State                                                                   *)
(***************************************************************************)
VARIABLES
    program,                 \* which copy of buildOptimizedPlans runs
    allSessions,             \* argument: the session pool, in ingest order
    want,                    \* argument: wantFileData
    pc,                      \* position inside buildOptimizedPlans
    plansByChild,            \* child name -> childPlan
    candidateJointSessions,  \* sorted joint candidates
    jointIndex,              \* position of the joint walk
    chosenJointSessions,     \* the joint list
    jointActivitySet,        \* activities seated jointly
    individualPool,          \* sorted individual candidates
    individualIndex,         \* position of the individual walk
    run,                     \* 1 for the first run, 2 for a repeated run
    priorResult,             \* result of the first run, once repeated
    overlapArgs,             \* the two arguments of a sessionsOverlap call
    overlapResult,           \* <<what the call returned>>, <<>> before it
    callArgs,                \* the arguments of a call of another function
    callResult,              \* <<what that call returned>>, <<>> before it
    rawSessions,             \* the scraper's sessions before transformation
    exportJoint,             \* rendered joint list, <<>> before rendering
    exportChildren,          \* rendered list per child, <<>> before rendering
    currentStage,            \* web job: processingJob.currentStage
    jobPc,                   \* web job: position of processJob
    processError,            \* web job: processingJob.processError
    resultJSON,              \* web job: processingJob.resultJSON
    subscribers,             \* web job: the subscribed event streams
    stageChannels,           \* web job: per event stream, its buffered channel
    subscriberPc,            \* web job: per event stream, position of serveEvents
    received                 \* web job: per event stream, the stages written out

vars ==
    <<program, allSessions, want, pc, plansByChild, candidateJointSessions,
      jointIndex, chosenJointSessions, jointActivitySet, individualPool,
      individualIndex, run, priorResult, overlapArgs, overlapResult,
      callArgs, callResult, rawSessions, exportJoint, exportChildren,
      currentStage, jobPc, processError, resultJSON, subscribers,
      stageChannels, subscriberPc, received>>

\* the variables of the renderers and of the web job
renderVars == <<exportJoint, exportChildren>>

webVars ==
    <<currentStage, jobPc, processError, resultJSON, subscribers,
      stageChannels, subscriberPc, received>>

\* the variables of the scheduler, of the calls of single functions and of
\* the command line
schedulerVars ==
    <<program, allSessions, want, pc, plansByChild, candidateJointSessions,
      jointIndex, chosenJointSessions, jointActivitySet, individualPool,
      individualIndex, run, priorResult, overlapArgs, overlapResult,
      callArgs, callResult, rawSessions>>

\* nothing rendered yet; no web job
renderIdle == exportJoint = <<>> /\ exportChildren = <<>>

webIdle ==
    /\ currentStage = ""
    /\ jobPc = "none"
    /\ processError = "nil"
    /\ resultJSON = "nil"
    /\ subscribers = {}
    /\ stageChannels = <<>>
    /\ subscriberPc = <<>>
    /\ received = <<>>

(***************************************************************************)
(* Helpers of both copies                                                  *)
(***************************************************************************)
priorityScoreByWord(word) ==
    CASE word = "High" -> 3
      [] word = "Medium" -> 2
      [] word = "Low" -> 1
      [] word = "No" -> 0
      [] OTHER -> 0

\* indexing a Go map: the zero value when the key is missing
mapGet(m, key) == IF key \in DOMAIN m THEN m[key] ELSE ""

availabilityIsOpen(availabilityText) ==
    LET lower == TrimSpace(ToLower(availabilityText))
    IN  IF lower \in {<<>>, textAvailable, textStartingSoonLower}
        THEN TRUE
        ELSE Contains(lower, textSpace) /\ Contains(lower, textLeft)

\* ageIsWithinBounds with the upper bound taken as inclusive
ageIsWithinBoundsInclusiveMax(age, minPtr, maxPtr) ==
    LET minimum == IF minPtr # NilInt THEN minPtr[1] ELSE 0
        maximum == IF maxPtr # NilInt THEN maxPtr[1] ELSE maxInt32
    IN  age >= minimum /\ age <= maximum

ageIsWithinBounds(age, minPtr, maxPtr) ==
    LET minimum == IF minPtr # NilInt THEN minPtr[1] ELSE 0
        maximum == IF maxPtr # NilInt THEN maxPtr[1] ELSE maxInt32
    IN  age >= minimum /\ age < maximum

shareDayLoop(daysA, daysB) ==
    \E i \in 1..Len(daysA) : \E j \in 1..Len(daysB) : daysA[i] = daysB[j]

\* sessionsOverlap of cmd/schedule with the gap compared by < instead of <=
sessionsOverlapStrictGap(sessionA, sessionB) ==
    IF sessionA.endDate < sessionB.startDate \/ sessionB.endDate < sessionA.startDate
    THEN FALSE
    ELSE IF ~shareDayLoop(sessionA.DaysOfWeek, sessionB.DaysOfWeek)
    THEN FALSE
    ELSE IF \/ sessionA.endClockMinutes + bufferMinutesBetweenSessions
                  < sessionB.startClockMinutes
            \/ sessionB.endClockMinutes + bufferMinutesBetweenSessions
                  < sessionA.startClockMinutes
    THEN FALSE
    ELSE TRUE

\* src/cmd/schedule/main.go
sessionsOverlap(sessionA, sessionB) ==
    IF sessionA.endDate < sessionB.startDate \/ sessionB.endDate < sessionA.startDate
    THEN FALSE
    ELSE IF ~shareDayLoop(sessionA.DaysOfWeek, sessionB.DaysOfWeek)
    THEN FALSE
    ELSE IF \/ sessionA.endClockMinutes + bufferMinutesBetweenSessions
                  <= sessionB.startClockMinutes
            \/ sessionB.endClockMinutes + bufferMinutesBetweenSessions
                  <= sessionA.startClockMinutes
    THEN FALSE
    ELSE TRUE

\* pkg/optimizer
optimizerSessionsOverlap(a, b) ==
    IF a.endDate < b.startDate \/ b.endDate < a.startDate
    THEN FALSE
    ELSE LET shareDay ==
                 IF Len(a.DaysOfWeek) = 0 \/ Len(b.DaysOfWeek) = 0
                 THEN TRUE
                 ELSE shareDayLoop(a.DaysOfWeek, b.DaysOfWeek)
         IN  IF ~shareDay
             THEN FALSE
             ELSE IF \/ a.endClockMinutes + bufferMinutesBetweenSessions
                           <= b.startClockMinutes
                     \/ b.endClockMinutes + bufferMinutesBetweenSessions
                           <= a.startClockMinutes
             THEN FALSE
             ELSE TRUE

overlapIn(prog, a, b) ==
    IF prog = "cmd/schedule" THEN sessionsOverlap(a, b)
    ELSE optimizerSessionsOverlap(a, b)

emptyPlan == [scheduledSessions |-> <<>>, enrolledActivitiesSet |-> {}]

\* sessionFitsInPlan without the look-up in enrolledActivitiesSet
sessionFitsInPlanIgnoringActivity(plan, candidate) ==
    \A k \in 1..Len(plan.scheduledSessions) :
        ~overlapIn(program, allSessions[plan.scheduledSessions[k]],
                   allSessions[candidate])

\* sessionFitsInPlan without the walk over scheduledSessions
sessionFitsInPlanActivityOnly(plan, candidate) ==
    allSessions[candidate].ActivityName \notin plan.enrolledActivitiesSet

sessionFitsInPlan(plan, candidate) ==
    IF allSessions[candidate].ActivityName \in plan.enrolledActivitiesSet
    THEN FALSE
    ELSE \A k \in 1..Len(plan.scheduledSessions) :
             ~overlapIn(program, allSessions[plan.scheduledSessions[k]],
                        allSessions[candidate])

\* addSession putting the session in the place of the plan's sessions
addSessionReplacing(plan, session) ==
    [scheduledSessions |-> <<session>>,
     enrolledActivitiesSet |-> {allSessions[session].ActivityName}]

addSession(plan, session) ==
    [scheduledSessions |-> Append(plan.scheduledSessions, session),
     enrolledActivitiesSet |->
         plan.enrolledActivitiesSet \cup {allSessions[session].ActivityName}]

(***************************************************************************)
(* sort.Slice(slice, less): the slice ends sorted by less; the order of    *)
(* elements that less does not separate is not specified (sort.Slice is    *)
(* not a stable sort).  Every order sort.Slice may leave is a possible     *)
(* result.  `items` is the set of elements, `less` the comparator as a     *)
(* function on pairs.                                                      *)
(***************************************************************************)
RECURSIVE sortSlice(_, _)
sortSlice(items, less) ==
    IF items = {} THEN {<<>>}
    ELSE UNION { { <<m>> \o rest : rest \in sortSlice(items \ {m}, less) } :
                 m \in { x \in items : \A y \in items : ~less[<<y, x>>] } }

(***************************************************************************)
(* buildOptimizedPlans                                                     *)
(***************************************************************************)
childNames == { want.childNamesSorted[i] : i \in 1..Len(want.childNamesSorted) }

\* the test the candidate loops make per child: score > 0 and age in bounds
childIsEligible(session, childName) ==
    LET priorityScore ==
            priorityScoreByWord(mapGet(session.InterestedPriorities, childName))
    IN  ~(\/ priorityScore = 0
          \/ ~ageIsWithinBounds(want.childAgesByName[childName],
                                session.MinimumAgeInclusive,
                                session.MaximumAgeExclusive))

\* sumScores counting the first child only
RECURSIVE sumScoresFirstChild(_, _)
sumScoresFirstChild(session, names) ==
    IF names = <<>> THEN 0
    ELSE priorityScoreByWord(mapGet(session.InterestedPriorities, Head(names)))

RECURSIVE sumScores(_, _)
sumScores(session, names) ==
    IF names = <<>> THEN 0
    ELSE priorityScoreByWord(mapGet(session.InterestedPriorities, Head(names)))
         + sumScores(session, Tail(names))

\* jointCandidates formed only when there are at least two children
jointCandidatesNeedingTwoChildren ==
    IF Len(want.childNamesSorted) < 2 THEN {}
    ELSE { [sessionInstance |-> s,
            totalScore |-> sumScores(allSessions[s], want.childNamesSorted)] :
           s \in { t \in 1..Len(allSessions) :
                     /\ availabilityIsOpen(allSessions[t].AvailabilityText)
                     /\ \A c \in childNames : childIsEligible(allSessions[t], c) } }

\* jointCandidates asking for one eligible child instead of all
jointCandidatesAnyChild ==
    { [sessionInstance |-> s,
       totalScore |-> sumScores(allSessions[s], want.childNamesSorted)] :
      s \in { t \in 1..Len(allSessions) :
                /\ availabilityIsOpen(allSessions[t].AvailabilityText)
                /\ \E c \in childNames : childIsEligible(allSessions[t], c) } }

jointCandidates ==
    { [sessionInstance |-> s,
       totalScore |-> sumScores(allSessions[s], want.childNamesSorted)] :
      s \in { t \in 1..Len(allSessions) :
                /\ availabilityIsOpen(allSessions[t].AvailabilityText)
                /\ \A c \in childNames : childIsEligible(allSessions[t], c) } }

\* the joint comparator without its start-date branch
jointLessScoreOnly(i, j) == i.totalScore > j.totalScore

jointLess(i, j) ==
    IF i.totalScore # j.totalScore
    THEN i.totalScore > j.totalScore
    ELSE allSessions[i.sessionInstance].startDate
            < allSessions[j.sessionInstance].startDate

\* the add loop leaving after its first plan
addToOnePlan(plans, session) ==
    LET first == CHOOSE c \in DOMAIN plans : TRUE
    IN  [c \in DOMAIN plans |->
            IF c = first THEN addSession(plans[c], session) ELSE plans[c]]

\* plan.addSession(candidate) for every plan of plansByChild
addToEveryPlan(plans, session) ==
    [c \in DOMAIN plans |-> addSession(plans[c], session)]

activitiesOf(sessions) ==
    { allSessions[sessions[k]].ActivityName : k \in 1..Len(sessions) }

\* the individual pool built without the alreadyJoint test
individualCandidatesKeepingJoint(jointSet) ==
    { [sessionInstance |-> p[1], childName |-> p[2],
       priorityScore |->
           priorityScoreByWord(mapGet(allSessions[p[1]].InterestedPriorities,
                                      p[2]))] :
      p \in { q \in (1..Len(allSessions)) \X childNames :
                /\ availabilityIsOpen(allSessions[q[1]].AvailabilityText)
                /\ childIsEligible(allSessions[q[1]], q[2]) } }

\* the individual pool built from the tuples of priority High only
individualCandidatesHighOnly(jointSet) ==
    { [sessionInstance |-> p[1], childName |-> p[2], priorityScore |-> 3] :
      p \in { q \in (1..Len(allSessions)) \X childNames :
                /\ availabilityIsOpen(allSessions[q[1]].AvailabilityText)
                /\ allSessions[q[1]].ActivityName \notin jointSet
                /\ childIsEligible(allSessions[q[1]], q[2])
                /\ mapGet(allSessions[q[1]].InterestedPriorities, q[2]) = "High" } }

individualCandidates(jointSet) ==
    { [sessionInstance |-> p[1], childName |-> p[2],
       priorityScore |->
           priorityScoreByWord(mapGet(allSessions[p[1]].InterestedPriorities,
                                      p[2]))] :
      p \in { q \in (1..Len(allSessions)) \X childNames :
                /\ availabilityIsOpen(allSessions[q[1]].AvailabilityText)
                /\ allSessions[q[1]].ActivityName \notin jointSet
                /\ childIsEligible(allSessions[q[1]], q[2]) } }

\* individualLess with the lower score first
individualLessLowFirst(i, j) ==
    IF i.priorityScore # j.priorityScore
    THEN i.priorityScore < j.priorityScore
    ELSE allSessions[i.sessionInstance].startDate
            < allSessions[j.sessionInstance].startDate

individualLess(i, j) ==
    IF i.priorityScore # j.priorityScore
    THEN i.priorityScore > j.priorityScore
    ELSE allSessions[i.sessionInstance].startDate
            < allSessions[j.sessionInstance].startDate

\* empty plans, joint candidates, sort
BuildJointCandidates ==
    /\ pc = "start"
    /\ plansByChild' = [c \in childNames |-> emptyPlan]
    /\ LET items == jointCandidates
       IN  candidateJointSessions' \in
               sortSlice(items, [p \in items \X items |-> jointLess(p[1], p[2])])
    /\ jointIndex' = 1
    /\ chosenJointSessions' = <<>>
    /\ pc' = "jointWalk"
    /\ UNCHANGED <<program, allSessions, want, jointActivitySet, individualPool,
                   individualIndex, run, priorResult, overlapArgs,
                   overlapResult,
                   callArgs, callResult, rawSessions,
                   renderVars, webVars>>

\* one iteration of the joint walk
JointWalkStep ==
    /\ pc = "jointWalk"
    /\ jointIndex <= Len(candidateJointSessions)
    /\ LET candidate == candidateJointSessions[jointIndex]
           sessionFits ==
               \A c \in DOMAIN plansByChild :
                   sessionFitsInPlan(plansByChild[c], candidate.sessionInstance)
       IN  IF sessionFits
           THEN /\ chosenJointSessions' =
                       Append(chosenJointSessions, candidate.sessionInstance)
                /\ plansByChild' =
                       addToEveryPlan(plansByChild, candidate.sessionInstance)
           ELSE UNCHANGED <<chosenJointSessions, plansByChild>>
    /\ jointIndex' = jointIndex + 1
    /\ UNCHANGED <<program, allSessions, want, pc, candidateJointSessions,
                   jointActivitySet, individualPool, individualIndex, run,
                   priorResult, overlapArgs, overlapResult,
                   callArgs, callResult, rawSessions,
                   renderVars, webVars>>

\* after the joint walk: joint activity set, individual pool, sort
BuildIndividualPool ==
    /\ pc = "jointWalk"
    /\ jointIndex > Len(candidateJointSessions)
    /\ LET jointSet == activitiesOf(chosenJointSessions)
           items == individualCandidates(jointSet)
       IN  /\ jointActivitySet' = jointSet
           /\ individualPool' \in
                  sortSlice(items,
                            [p \in items \X items |-> individualLess(p[1], p[2])])
    /\ individualIndex' = 1
    /\ pc' = "individualWalk"
    /\ UNCHANGED <<program, allSessions, want, plansByChild,
                   candidateJointSessions, jointIndex, chosenJointSessions, run,
                   priorResult, overlapArgs, overlapResult,
                   callArgs, callResult, rawSessions,
                   renderVars, webVars>>

\* one iteration of the individual walk
IndividualWalkStep ==
    /\ pc = "individualWalk"
    /\ individualIndex <= Len(individualPool)
    /\ LET candidate == individualPool[individualIndex]
           plan == plansByChild[candidate.childName]
       IN  IF sessionFitsInPlan(plan, candidate.sessionInstance)
           THEN plansByChild' =
                    [plansByChild EXCEPT ![candidate.childName] =
                        addSession(plan, candidate.sessionInstance)]
           ELSE UNCHANGED plansByChild
    /\ individualIndex' = individualIndex + 1
    /\ UNCHANGED <<program, allSessions, want, pc, candidateJointSessions,
                   jointIndex, chosenJointSessions, jointActivitySet,
                   individualPool, run, priorResult, overlapArgs,
                   overlapResult,
                   callArgs, callResult, rawSessions,
                   renderVars, webVars>>

\* the individual walk is over: buildOptimizedPlans returns
\* plansByChild and chosenJointSessions as they stand
finished == pc = "individualWalk" /\ individualIndex > Len(individualPool)

\* the program is started a second time on the same two files
Rerun ==
    /\ finished
    /\ run = 1
    /\ priorResult' = [joint |-> chosenJointSessions, plans |-> plansByChild]
    /\ run' = 2
    /\ pc' = "start"
    /\ plansByChild' = <<>>
    /\ candidateJointSessions' = <<>>
    /\ jointIndex' = 1
    /\ chosenJointSessions' = <<>>
    /\ jointActivitySet' = {}
    /\ individualPool' = <<>>
    /\ individualIndex' = 1
    /\ UNCHANGED <<program, allSessions, want, overlapArgs, overlapResult,
                   callArgs, callResult, rawSessions,
                   renderVars, webVars>>

\* one call of the program's sessionsOverlap
CallSessionsOverlap ==
    /\ pc = "overlap"
    /\ overlapResult = <<>>
    /\ overlapResult' = <<overlapIn(program, overlapArgs[1], overlapArgs[2])>>
    /\ UNCHANGED <<program, allSessions, want, pc, plansByChild,
                   candidateJointSessions, jointIndex, chosenJointSessions,
                   jointActivitySet, individualPool, individualIndex, run,
                   priorResult, overlapArgs,
                   callArgs, callResult, rawSessions,
                   renderVars, webVars>>

\* one call of ageIsWithinBounds(age, minPtr, maxPtr)
CallAgeIsWithinBounds ==
    /\ pc = "age"
    /\ callResult = <<>>
    /\ callResult' = <<ageIsWithinBounds(callArgs[1], callArgs[2], callArgs[3])>>
    /\ UNCHANGED <<program, allSessions, want, pc, plansByChild,
                   candidateJointSessions, jointIndex, chosenJointSessions,
                   jointActivitySet, individualPool, individualIndex, run,
                   priorResult, overlapArgs, overlapResult, callArgs,
                   rawSessions,
                   renderVars, webVars>>

\* one call of plan.addSession(session) on a child's plan, for any child and
\* any session of the pool; callArgs keeps the child, the session and the
\* plan as it was before the call, callResult one entry per call made
CallAddSession ==
    /\ pc = "add"
    /\ Len(callResult) < MaxSessions
    /\ \E c \in DOMAIN plansByChild, session \in 1..Len(allSessions) :
           /\ callArgs' = <<c, session, plansByChild[c]>>
           /\ plansByChild' =
                  [plansByChild EXCEPT ![c] = addSession(plansByChild[c], session)]
    /\ callResult' = Append(callResult, "returned")
    /\ UNCHANGED <<program, allSessions, want, pc, candidateJointSessions,
                   jointIndex, chosenJointSessions, jointActivitySet,
                   individualPool, individualIndex, run, priorResult,
                   overlapArgs, overlapResult, rawSessions,
                   renderVars, webVars>>

(***************************************************************************)
(* Rendering: writeJSONOutput and printTextOutput of cmd/schedule, and the *)
(* export loop of Optimize in pkg/optimizer.  All three sort the joint     *)
(* list and every plan in place by startDate with sort.Slice, emit the     *)
(* joint list, and emit per child the plan entries whose activity is not   *)
(* the activity of a joint entry.  An emitted entry is kept as the         *)
(* activity name and the session it was made from (which stands for the    *)
(* dates and the URL of the entry).                                        *)
(***************************************************************************)
startDateLess(i, j) == allSessions[i].startDate < allSessions[j].startDate

\* the orders sort.Slice may leave a slice of sessions in
sortByStartDate(sessions) ==
    LET items == { sessions[k] : k \in 1..Len(sessions) }
    IN  sortSlice(items, [p \in items \X items |-> startDateLess(p[1], p[2])])

exportEntry(session) ==
    [Activity |-> allSessions[session].ActivityName, session |-> session]

exportJointList(sortedJoint) ==
    [k \in 1..Len(sortedJoint) |-> exportEntry(sortedJoint[k])]

\* a child's list that does not leave out the joint activities
exportChildListKeepingJoint(sortedPlan, joint) ==
    [k \in 1..Len(sortedPlan) |-> exportEntry(sortedPlan[k])]

exportChildList(sortedPlan, joint) ==
    LET jointActivities == { joint[k].Activity : k \in 1..Len(joint) }
        kept == SelectSeq(sortedPlan,
                          LAMBDA session :
                              allSessions[session].ActivityName \notin jointActivities)
    IN  [k \in 1..Len(kept) |-> exportEntry(kept[k])]

Render ==
    /\ pc = "individualWalk"
    /\ individualIndex > Len(individualPool)
    /\ \E sortedJoint \in sortByStartDate(chosenJointSessions) :
           /\ chosenJointSessions' = sortedJoint
           /\ exportJoint' = exportJointList(sortedJoint)
           /\ \E sortedPlans \in
                  { f \in [DOMAIN plansByChild ->
                              UNION { sortByStartDate(plansByChild[c].scheduledSessions) :
                                      c \in DOMAIN plansByChild }] :
                      \A c \in DOMAIN plansByChild :
                          f[c] \in sortByStartDate(plansByChild[c].scheduledSessions) } :
                  /\ plansByChild' =
                         [c \in DOMAIN plansByChild |->
                             [plansByChild[c] EXCEPT !.scheduledSessions =
                                                         sortedPlans[c]]]
                  /\ exportChildren' =
                         [c \in DOMAIN plansByChild |->
                             exportChildList(sortedPlans[c],
                                             exportJointList(sortedJoint))]
    /\ pc' = "rendered"
    /\ UNCHANGED <<program, allSessions, want, candidateJointSessions,
                   jointIndex, jointActivitySet, individualPool,
                   individualIndex, run, priorResult, overlapArgs,
                   overlapResult, callArgs, callResult, rawSessions, webVars>>

(***************************************************************************)
(* From the scraper's sessions to the sessions buildOptimizedPlans takes   *)
(***************************************************************************)
\* the priorities a session gets: the sheet's row for its title, an empty map
\* when the sheet has no such row
prioritiesMap(w, title) ==
    IF title \in DOMAIN w.sessionPriorityByChild
    THEN w.sessionPriorityByChild[title]
    ELSE <<>>

digitChars == <<"0", "1", "2", "3", "4", "5", "6", "7", "8", "9">>

digitValue(c) == (CHOOSE k \in 1..Len(digitChars) : digitChars[k] = c) - 1

isDigit(c) == \E k \in 1..Len(digitChars) : digitChars[k] = c

RECURSIVE decimalValue(_)
decimalValue(s) ==
    IF s = <<>> THEN 0
    ELSE decimalValue(SubSeq(s, 1, Len(s) - 1)) * 10 + digitValue(s[Len(s)])

\* strconv.Atoi with its error dropped: 0 for a text that is no number
Atoi(s) ==
    LET signed == s # <<>> /\ s[1] \in {"+", "-"}
        digits == IF signed THEN Tail(s) ELSE s
    IN  IF digits = <<>> \/ \E k \in 1..Len(digits) : ~isDigit(digits[k])
        THEN 0
        ELSE IF signed /\ s[1] = "-" THEN 0 - decimalValue(digits)
        ELSE decimalValue(digits)

\* strings.Split(s, ":")
RECURSIVE SplitColon(_)
SplitColon(s) ==
    IF \A k \in 1..Len(s) : s[k] # ":" THEN <<s>>
    ELSE LET k == CHOOSE i \in 1..Len(s) :
                      s[i] = ":" /\ \A j \in 1..(i - 1) : s[j] # ":"
         IN  <<SubSeq(s, 1, k - 1)>> \o SplitColon(SubSeq(s, k + 1, Len(s)))

militaryTimeToMinutes(military) ==
    LET parts == SplitColon(military)
    IN  IF Len(parts) # 2 THEN 0
        ELSE Atoi(parts[1]) * 60 + Atoi(parts[2])

\* time.Unix(seconds, 0): the instant, kept as its seconds since the epoch
timeUnix(seconds) == seconds

\* cmd/schedule: entries without a title are skipped
RECURSIVE transformRawSessions(_, _)
transformRawSessions(rawData, w) ==
    IF rawData = <<>> THEN <<>>
    ELSE LET rawEntry == Head(rawData)
             rest == transformRawSessions(Tail(rawData), w)
         IN  IF rawEntry.title = ""
             THEN rest
             ELSE <<[ActivityName |-> rawEntry.title,
                     startDate |-> timeUnix(rawEntry.startDateUnix),
                     endDate |-> timeUnix(rawEntry.endDateUnix),
                     DaysOfWeek |-> rawEntry.days,
                     startClockMinutes |-> militaryTimeToMinutes(rawEntry.startTime),
                     endClockMinutes |-> militaryTimeToMinutes(rawEntry.endTime),
                     MinimumAgeInclusive |-> rawEntry.minAge,
                     MaximumAgeExclusive |-> rawEntry.maxAge,
                     AvailabilityText |-> rawEntry.availability,
                     InterestedPriorities |-> prioritiesMap(w, rawEntry.title)]>>
                  \o rest

\* pkg/optimizer: every session is kept
transformScraperSessions(source, w) ==
    [k \in 1..Len(source) |->
        [ActivityName |-> source[k].title,
         startDate |-> timeUnix(source[k].startDateUnix),
         endDate |-> timeUnix(source[k].endDateUnix),
         DaysOfWeek |-> source[k].days,
         startClockMinutes |-> source[k].startMinutes,
         endClockMinutes |-> source[k].endMinutes,
         MinimumAgeInclusive |-> source[k].minAge,
         MaximumAgeExclusive |-> source[k].maxAge,
         AvailabilityText |-> source[k].availability,
         InterestedPriorities |-> prioritiesMap(w, source[k].title)]]

\* main / Optimize: the sessions are transformed, then buildOptimizedPlans
\* is called with them
TransformSessions ==
    /\ pc = "raw"
    /\ allSessions' = IF program = "cmd/schedule"
                      THEN transformRawSessions(rawSessions, want)
                      ELSE transformScraperSessions(rawSessions, want)
    /\ pc' = "start"
    /\ UNCHANGED <<program, want, plansByChild, candidateJointSessions,
                   jointIndex, chosenJointSessions, jointActivitySet,
                   individualPool, individualIndex, run, priorResult,
                   overlapArgs, overlapResult, callArgs, callResult,
                   rawSessions,
                   renderVars, webVars>>

(***************************************************************************)
(* main of cmd/schedule, as far as its exit status goes.  callArgs holds   *)
(* the command line and the condition of the files it names: each flag is  *)
(* given or not; an input file is "unreadable" (it cannot be opened),      *)
(* "malformed" (not CSV, not JSON) or "ok"; the -json output file, when    *)
(* asked for, can be created or not.  callResult is <<exit status>> once   *)
(* the process has ended: 0 when main returns, 2 when a panic ends it.     *)
(***************************************************************************)
\* flag.Parse and the check of the two required flags
MainParseFlags ==
    /\ pc = "main"
    /\ IF ~callArgs.sessionsFlag \/ ~callArgs.wantFlag
       THEN pc' = "exited" /\ callResult' = <<0>>
       ELSE pc' = "loadWantFile" /\ UNCHANGED callResult
    /\ UNCHANGED <<program, allSessions, want, plansByChild,
                   candidateJointSessions, jointIndex, chosenJointSessions,
                   jointActivitySet, individualPool, individualIndex, run,
                   priorResult, overlapArgs, overlapResult, callArgs,
                   rawSessions, renderVars, webVars>>

\* loadWantFile: os.Open fails with a panic; the errors of csvReader.Read
\* end the reading and are dropped
MainLoadWantFile ==
    /\ pc = "loadWantFile"
    /\ IF callArgs.wantFile = "unreadable"
       THEN pc' = "exited" /\ callResult' = <<2>>
       ELSE pc' = "transformRawSessions" /\ UNCHANGED callResult
    /\ UNCHANGED <<program, allSessions, want, plansByChild,
                   candidateJointSessions, jointIndex, chosenJointSessions,
                   jointActivitySet, individualPool, individualIndex, run,
                   priorResult, overlapArgs, overlapResult, callArgs,
                   rawSessions, renderVars, webVars>>

\* transformRawSessions: os.ReadFile fails with a panic; the error of
\* json.Unmarshal is dropped and the sessions are then none
MainTransformRawSessions ==
    /\ pc = "transformRawSessions"
    /\ IF callArgs.sessionsFile = "unreadable"
       THEN pc' = "exited" /\ callResult' = <<2>>
       ELSE pc' = "output" /\ UNCHANGED callResult
    /\ UNCHANGED <<program, allSessions, want, plansByChild,
                   candidateJointSessions, jointIndex, chosenJointSessions,
                   jointActivitySet, individualPool, individualIndex, run,
                   priorResult, overlapArgs, overlapResult, callArgs,
                   rawSessions, renderVars, webVars>>

\* buildOptimizedPlans, then writeJSONOutput (os.Create fails with a panic)
\* or printTextOutput, then main returns
MainOutput ==
    /\ pc = "output"
    /\ pc' = "exited"
    /\ callResult' = IF callArgs.jsonFlag /\ ~callArgs.jsonCreatable
                     THEN <<2>> ELSE <<0>>
    /\ UNCHANGED <<program, allSessions, want, plansByChild,
                   candidateJointSessions, jointIndex, chosenJointSessions,
                   jointActivitySet, individualPool, individualIndex, run,
                   priorResult, overlapArgs, overlapResult, callArgs,
                   rawSessions, renderVars, webVars>>

(***************************************************************************)
(* cmd/web: one processingJob, its processJob goroutine and the event      *)
(* streams (serveEvents) of its clients.  setStage, subscribe and          *)
(* unsubscribe each run under the job's mutex and never wait inside it, so *)
(* each is one step.  callArgs.csv is the uploaded sheet as                *)
(* ExtractCampNames sees it: "unreadable" (no header row), "noCampColumn", *)
(* "noCamps" (a Camp column without names) or "ok".                        *)
(***************************************************************************)
stageVerifyingLiteral == "verifying"

stageScrapingLiteral == "scraping"

\* the stage before Optimize, mistaken for the first stage
stageOptimizingMistaken == "verifying"

stageOptimizingLiteral == "optimizing"

stageDoneLiteral == "done"

\* make(chan string, 4)
stageChannelCapacity == 4

Streams == {"stream1", "stream2"}

\* the loop of setStage with the new stage put at the front of each channel
channelsAfterSendInFront(newStage) ==
    [ch \in DOMAIN stageChannels |->
        IF ch \in subscribers /\ Len(stageChannels[ch]) < stageChannelCapacity
        THEN <<newStage>> \o stageChannels[ch]
        ELSE stageChannels[ch]]

\* the loop of setStage: a send to every subscribed channel that has room,
\* nothing for a full one
channelsAfterSend(newStage) ==
    [ch \in DOMAIN stageChannels |->
        IF ch \in subscribers /\ Len(stageChannels[ch]) < stageChannelCapacity
        THEN Append(stageChannels[ch], newStage)
        ELSE stageChannels[ch]]

setStage(newStage) ==
    /\ currentStage' = newStage
    /\ stageChannels' = channelsAfterSend(newStage)

\* processJob: setStage(stageVerifyingLiteral)
JobVerifying ==
    /\ jobPc = "notStarted"
    /\ setStage(stageVerifyingLiteral)
    /\ jobPc' = "extract"
    /\ UNCHANGED <<schedulerVars, renderVars, processError, resultJSON,
                   subscribers, subscriberPc, received>>

\* processJob: ExtractCampNames and the test of its result
JobExtract ==
    /\ jobPc = "extract"
    /\ IF callArgs.csv = "ok"
       THEN jobPc' = "scraping" /\ UNCHANGED processError
       ELSE /\ jobPc' = "failed"
            /\ processError' = IF callArgs.csv = "noCamps" THEN "nil" ELSE "error"
    /\ UNCHANGED <<schedulerVars, renderVars, currentStage, resultJSON,
                   subscribers, stageChannels, subscriberPc, received>>

\* processJob: setStage(stageDoneLiteral) and return, after a failure
JobFailed ==
    /\ jobPc = "failed"
    /\ setStage(stageDoneLiteral)
    /\ jobPc' = "returned"
    /\ UNCHANGED <<schedulerVars, renderVars, processError, resultJSON,
                   subscribers, subscriberPc, received>>

\* processJob: setStage(stageScrapingLiteral)
JobScraping ==
    /\ jobPc = "scraping"
    /\ setStage(stageScrapingLiteral)
    /\ jobPc' = "scrape"
    /\ UNCHANGED <<schedulerVars, renderVars, processError, resultJSON,
                   subscribers, subscriberPc, received>>

\* processJob: the scraping loop, then setStage(stageOptimizingLiteral)
JobOptimizing ==
    /\ jobPc = "scrape"
    /\ setStage(stageOptimizingLiteral)
    /\ jobPc' = "optimize"
    /\ UNCHANGED <<schedulerVars, renderVars, processError, resultJSON,
                   subscribers, subscriberPc, received>>

\* processJob: Optimize (whose only error is one of json.MarshalIndent on
\* a structure of strings, which does not occur) and the result kept
JobOptimize ==
    /\ jobPc = "optimize"
    /\ resultJSON' = "json"
    /\ jobPc' = "done"
    /\ UNCHANGED <<schedulerVars, renderVars, currentStage, processError,
                   subscribers, stageChannels, subscriberPc, received>>

\* processJob: the last setStage(stageDoneLiteral)
JobDone ==
    /\ jobPc = "done"
    /\ setStage(stageDoneLiteral)
    /\ jobPc' = "returned"
    /\ UNCHANGED <<schedulerVars, renderVars, processError, resultJSON,
                   subscribers, subscriberPc, received>>

processJob ==
    \/ JobVerifying
    \/ JobExtract
    \/ JobFailed
    \/ JobScraping
    \/ JobOptimizing
    \/ JobOptimize
    \/ JobDone

\* serveEvents: subscribe makes the channel, puts the current stage in it
\* and registers it
Subscribe(ch) ==
    /\ subscriberPc[ch] = "idle"
    /\ stageChannels' = [stageChannels EXCEPT ![ch] = <<currentStage>>]
    /\ subscribers' = subscribers \cup {ch}
    /\ subscriberPc' = [subscriberPc EXCEPT ![ch] = "reading"]
    /\ UNCHANGED <<schedulerVars, renderVars, currentStage, jobPc,
                   processError, resultJSON, received>>

\* serveEvents: one iteration of the loop over the channel; it waits while
\* the channel is empty and leaves the loop after writing out "done"
ReadStage(ch) ==
    /\ subscriberPc[ch] = "reading"
    /\ stageChannels[ch] # <<>>
    /\ LET stage == Head(stageChannels[ch])
       IN  /\ received' = [received EXCEPT ![ch] = Append(@, stage)]
           /\ subscriberPc' =
                  [subscriberPc EXCEPT ![ch] =
                      IF stage = stageDoneLiteral THEN "leaving" ELSE "reading"]
    /\ stageChannels' = [stageChannels EXCEPT ![ch] = Tail(@)]
    /\ UNCHANGED <<schedulerVars, renderVars, currentStage, jobPc,
                   processError, resultJSON, subscribers>>

\* unsubscribe closing the channel and leaving it in the map
unsubscribeKeepingEntry(ch) ==
    /\ subscribers' = subscribers
    /\ subscriberPc' = [subscriberPc EXCEPT ![ch] = "closed"]

\* delete(j.subscribers, stageChannel); close(stageChannel)
unsubscribe(ch) ==
    /\ subscribers' = subscribers \ {ch}
    /\ subscriberPc' = [subscriberPc EXCEPT ![ch] = "closed"]

\* serveEvents: the deferred unsubscribe
Unsubscribe(ch) ==
    /\ subscriberPc[ch] = "leaving"
    /\ unsubscribe(ch)
    /\ UNCHANGED <<schedulerVars, renderVars, currentStage, jobPc,
                   processError, resultJSON, stageChannels, received>>

(***************************************************************************)
(* expandDayTokens of the scraper (expandDays of cmd/scrape is the same    *)
(* code).  callArgs.token is the day token as text; callResult holds the   *)
(* function's locals: the segments still to come, the days expanded so     *)
(* far, and, inside the loop over a range, its counter and the two         *)
(* indices; iterations counts the passes of the loop for the last range.   *)
(***************************************************************************)
\* strings.Split(s, sep) for a separator of one character
RECURSIVE Split(_, _)
Split(s, sep) ==
    IF \A k \in 1..Len(s) : s[k] # sep THEN <<s>>
    ELSE LET k == CHOOSE i \in 1..Len(s) :
                      s[i] = sep /\ \A j \in 1..(i - 1) : s[j] # sep
         IN  <<SubSeq(s, 1, k - 1)>> \o Split(SubSeq(s, k + 1, Len(s)), sep)

\* the keys of weekdayToIndexMap, each at its index + 1
weekdayToIndexMap ==
    << <<"M", "o", "n">>, <<"T", "u", "e">>, <<"W", "e", "d">>,
       <<"T", "h", "u">>, <<"F", "r", "i">>, <<"S", "a", "t">>,
       <<"S", "u", "n">> >>

weekdayOk(day) == \E k \in 1..Len(weekdayToIndexMap) : weekdayToIndexMap[k] = day

weekdayIndexOf(day) ==
    (CHOOSE k \in 1..Len(weekdayToIndexMap) : weekdayToIndexMap[k] = day) - 1

\* the inner loop with a week that begins on Sunday
weekdayNamesSundayFirst(index) ==
    IF index = 0 THEN <<weekdayToIndexMap[7]>>
    ELSE IF index \in 1..6 THEN <<weekdayToIndexMap[index]>>
    ELSE <<>>

\* the inner loop: the name that has the index, if there is one
weekdayNames(index) ==
    IF index + 1 \in 1..Len(weekdayToIndexMap)
    THEN <<weekdayToIndexMap[index + 1]>>
    ELSE <<>>

expandLocals(segments, expanded, inLoop, i, startIndex, endIndex, iterations) ==
    [segments |-> segments, expanded |-> expanded, inLoop |-> inLoop,
     i |-> i, startIndex |-> startIndex, endIndex |-> endIndex,
     iterations |-> iterations]

\* expandDayTokens is entered: the token is split at the commas
ExpandEnter ==
    /\ pc = "expandDayTokens"
    /\ callResult = <<>>
    /\ callResult' = expandLocals(Split(callArgs.token, ","), <<>>, FALSE, 0, 0, 0, 0)
    /\ UNCHANGED <<program, allSessions, want, pc, plansByChild,
                   candidateJointSessions, jointIndex, chosenJointSessions,
                   jointActivitySet, individualPool, individualIndex, run,
                   priorResult, overlapArgs, overlapResult, callArgs,
                   rawSessions, renderVars, webVars>>

\* one pass of the loop over the segments, up to the loop over a range
ExpandSegment ==
    /\ pc = "expandDayTokens"
    /\ callResult # <<>>
    /\ ~callResult.inLoop
    /\ callResult.segments # <<>>
    /\ LET segment == TrimSpace(Head(callResult.segments))
           rest == Tail(callResult.segments)
           rangeParts == Split(segment, "-")
           startDay == TrimSpace(rangeParts[1])
           endDay == TrimSpace(rangeParts[2])
       IN  callResult' =
               IF segment = <<>>
               THEN [callResult EXCEPT !.segments = rest]
               ELSE IF Contains(segment, <<"-">>)
               THEN IF ~weekdayOk(startDay) \/ ~weekdayOk(endDay)
                    THEN [callResult EXCEPT !.segments = rest]
                    ELSE expandLocals(rest, callResult.expanded, TRUE, 0,
                                      weekdayIndexOf(startDay),
                                      weekdayIndexOf(endDay), 0)
               ELSE [callResult EXCEPT !.segments = rest,
                                       !.expanded = Append(@, segment)]
    /\ UNCHANGED <<program, allSessions, want, pc, plansByChild,
                   candidateJointSessions, jointIndex, chosenJointSessions,
                   jointActivitySet, individualPool, individualIndex, run,
                   priorResult, overlapArgs, overlapResult, callArgs,
                   rawSessions, renderVars, webVars>>

\* one pass of the loop over a range: for i := 0; ; i++
ExpandRangeStep ==
    /\ pc = "expandDayTokens"
    /\ callResult # <<>>
    /\ callResult.inLoop
    /\ LET index == (callResult.startIndex + callResult.i) % 7
       IN  callResult' =
               [callResult EXCEPT
                   !.expanded = @ \o weekdayNames(index),
                   !.iterations = @ + 1,
                   !.i = @ + 1,
                   !.inLoop = index # callResult.endIndex]
    /\ UNCHANGED <<program, allSessions, want, pc, plansByChild,
                   candidateJointSessions, jointIndex, chosenJointSessions,
                   jointActivitySet, individualPool, individualIndex, run,
                   priorResult, overlapArgs, overlapResult, callArgs,
                   rawSessions, renderVars, webVars>>

\* return expanded
ExpandReturn ==
    /\ pc = "expandDayTokens"
    /\ callResult # <<>>
    /\ ~callResult.inLoop
    /\ callResult.segments = <<>>
    /\ pc' = "expanded"
    /\ UNCHANGED <<program, allSessions, want, plansByChild,
                   candidateJointSessions, jointIndex, chosenJointSessions,
                   jointActivitySet, individualPool, individualIndex, run,
                   priorResult, overlapArgs, overlapResult, callArgs,
                   callResult, rawSessions, renderVars, webVars>>

(***************************************************************************)
(* The scheduler with one phase (an earlier cmd/schedule): one pool of     *)
(* (session, child) assignments, sorted and walked once with isFree; the   *)
(* joint sessions are read off the plans at the end.  A session's start    *)
(* and end are instants in minutes: the day of its start date (days of one *)
(* month, 0 for a session without a start date, whose start stays the zero *)
(* time) plus its clock minutes.                                           *)
(***************************************************************************)
getIntFromPointer(pointer) == IF pointer = NilInt THEN maxInt32 ELSE pointer[1]

\* buffer := 30 * time.Minute
isFreeBuffer == 30

startIsZero(session) == session.startDay = 0

sessionStart(session) == session.startDay * 24 * 60 + session.startMinutes

sessionEnd(session) == session.startDay * 24 * 60 + session.endMinutes

\* start.Day() and start.Month() agree
sameDayOfMonth(a, b) == a.startDay = b.startDay

isFree(plan, session) ==
    IF startIsZero(session) THEN FALSE
    ELSE IF session.Activity \in plan.enrolledActs THEN FALSE
    ELSE \A k \in 1..Len(plan.scheduled) :
             LET existing == allSessions[plan.scheduled[k]]
             IN  \/ startIsZero(existing)
                 \/ sessionStart(session) + isFreeBuffer < sessionStart(existing)
                 \/ sessionEnd(existing) + isFreeBuffer < sessionStart(session)
                 \/ ~sameDayOfMonth(session, existing)

\* the assignments main collects: open sessions, the child's age within the
\* bounds as getIntFromPointer gives them, a priority above 0
assignmentCandidates ==
    { [session |-> p[1], child |-> p[2],
       priority |-> priorityScoreByWord(mapGet(allSessions[p[1]].Interested, p[2]))] :
      p \in { q \in (1..Len(allSessions)) \X childNames :
                /\ availabilityIsOpen(allSessions[q[1]].Availability)
                /\ ~(\/ want.childAgesByName[q[2]]
                           < getIntFromPointer(allSessions[q[1]].MinAge)
                      \/ want.childAgesByName[q[2]]
                           >= getIntFromPointer(allSessions[q[1]].MaxAge))
                /\ priorityScoreByWord(mapGet(allSessions[q[1]].Interested, q[2])) > 0 } }

assignmentLess(i, j) ==
    IF i.priority # j.priority
    THEN i.priority > j.priority
    ELSE sessionStart(allSessions[i.session]) < sessionStart(allSessions[j.session])

\* main: empty plans, the assignment pool, its sort
BuildAssignmentPool ==
    /\ pc = "singleStart"
    /\ plansByChild' = [c \in childNames |-> [scheduled |-> <<>>, enrolledActs |-> {}]]
    /\ LET items == assignmentCandidates
       IN  individualPool' \in
               sortSlice(items, [p \in items \X items |-> assignmentLess(p[1], p[2])])
    /\ individualIndex' = 1
    /\ pc' = "singleWalk"
    /\ UNCHANGED <<program, allSessions, want, candidateJointSessions,
                   jointIndex, chosenJointSessions, jointActivitySet, run,
                   priorResult, overlapArgs, overlapResult, callArgs,
                   callResult, rawSessions, renderVars, webVars>>

\* main: one iteration of the walk over the pool
GreedyWalkStep ==
    /\ pc = "singleWalk"
    /\ individualIndex <= Len(individualPool)
    /\ LET assign == individualPool[individualIndex]
           plan == plansByChild[assign.child]
       IN  IF isFree(plan, allSessions[assign.session])
           THEN plansByChild' =
                    [plansByChild EXCEPT ![assign.child] =
                        [scheduled |-> Append(plan.scheduled, assign.session),
                         enrolledActs |->
                             plan.enrolledActs
                                 \cup {allSessions[assign.session].Activity}]]
           ELSE UNCHANGED plansByChild
    /\ individualIndex' = individualIndex + 1
    /\ UNCHANGED <<program, allSessions, want, pc, candidateJointSessions,
                   jointIndex, chosenJointSessions, jointActivitySet,
                   individualPool, run, priorResult, overlapArgs,
                   overlapResult, callArgs, callResult, rawSessions,
                   renderVars, webVars>>

\* the comparator of the two sorts of the output
startBefore(i, j) == sessionStart(allSessions[i]) < sessionStart(allSessions[j])

sortByStart(sessions) ==
    sortSlice(sessions, [p \in sessions \X sessions |-> startBefore(p[1], p[2])])

scheduledIds(plan) == { plan.scheduled[k] : k \in 1..Len(plan.scheduled) }

\* main: the sessions every child holds, sorted by start, and every plan
\* sorted by start, as they are printed
PrintSchedules ==
    /\ pc = "singleWalk"
    /\ individualIndex > Len(individualPool)
    /\ chosenJointSessions' \in
           sortByStart({ id \in 1..Len(allSessions) :
                           /\ childNames # {}
                           /\ \A c \in childNames :
                                  id \in scheduledIds(plansByChild[c]) })
    /\ \E sortedPlans \in
           { f \in [childNames ->
                       UNION { sortByStart(scheduledIds(plansByChild[c])) :
                               c \in childNames }] :
               \A c \in childNames :
                   f[c] \in sortByStart(scheduledIds(plansByChild[c])) } :
           plansByChild' =
               [c \in childNames |->
                   [scheduled |-> sortedPlans[c],
                    enrolledActs |-> plansByChild[c].enrolledActs]]
    /\ pc' = "singlePrinted"
    /\ UNCHANGED <<program, allSessions, want, candidateJointSessions,
                   jointIndex, jointActivitySet, individualPool,
                   individualIndex, run, priorResult, overlapArgs,
                   overlapResult, callArgs, callResult, rawSessions,
                   renderVars, webVars>>

(***************************************************************************)
(* The job's resultJSON between processJob, which stores it, and           *)
(* serveSchedule, which loads it twice: for the test against nil and for   *)
(* the response.  Neither takes the job's mutex, so the store is a step    *)
(* that begins and a step that ends, and a load that falls between the two *)
(* is a data race: it may see the old value, the new one, or a slice       *)
(* header of which only a part is written.  callResult holds the request:  *)
(* where the handler is, its status and body, and whether one of its loads *)
(* fell into the store.                                                    *)
(***************************************************************************)
\* processJob: Optimize has returned and the store to resultJSON begins
JobWriteResult ==
    /\ jobPc = "optimize"
    /\ jobPc' = "writingResult"
    /\ UNCHANGED <<schedulerVars, renderVars, currentStage, processError,
                   resultJSON, subscribers, stageChannels, subscriberPc,
                   received>>

\* processJob: the store to resultJSON is complete
JobResultWritten ==
    /\ jobPc = "writingResult"
    /\ resultJSON' = "json"
    /\ jobPc' = "done"
    /\ UNCHANGED <<schedulerVars, renderVars, currentStage, processError,
                   subscribers, stageChannels, subscriberPc, received>>

\* what a load of resultJSON can give
loadResultJSON ==
    IF jobPc = "writingResult" THEN {"nil", "json", "torn"} ELSE {resultJSON}

\* serveSchedule: the job is found; resultJSON == nil is tested
ServeScheduleTest ==
    /\ callResult.handler = "idle"
    /\ \E seen \in loadResultJSON :
          callResult' =
              [handler |-> IF seen = "nil" THEN "answered" ELSE "respond",
               status |-> IF seen = "nil" THEN 404 ELSE 0,
               body |-> "",
               raced |-> jobPc = "writingResult"]
    /\ UNCHANGED <<program, allSessions, want, pc, plansByChild,
                   candidateJointSessions, jointIndex, chosenJointSessions,
                   jointActivitySet, individualPool, individualIndex, run,
                   priorResult, overlapArgs, overlapResult, callArgs,
                   rawSessions, renderVars, webVars>>

\* serveSchedule: writer.Write(jobInstance.resultJSON)
ServeScheduleRespond ==
    /\ callResult.handler = "respond"
    /\ \E seen \in loadResultJSON :
          callResult' =
              [handler |-> "answered",
               status |-> 200,
               body |-> seen,
               raced |-> callResult.raced \/ jobPc = "writingResult"]
    /\ UNCHANGED <<program, allSessions, want, pc, plansByChild,
                   candidateJointSessions, jointIndex, chosenJointSessions,
                   jointActivitySet, individualPool, individualIndex, run,
                   priorResult, overlapArgs, overlapResult, callArgs,
                   rawSessions, renderVars, webVars>>

\* processJob with the store to resultJSON in its two steps
processJobStoring ==
    \/ JobVerifying
    \/ JobExtract
    \/ JobFailed
    \/ JobScraping
    \/ JobOptimizing
    \/ JobWriteResult
    \/ JobResultWritten
    \/ JobDone

(***************************************************************************)
(* setStage, subscribe and unsubscribe called on one job in any order, as  *)
(* its methods allow.  callResult holds what became of the channel sends   *)
(* of the last call: "sent"; "dropped" (the default case of the select);   *)
(* "blocked" (a send without default on a full channel, which waits inside *)
(* the critical section); "panic" (a send on a closed channel).            *)
(***************************************************************************)
\* ch <- value, inside a select with a default case or not
chanSend(ch, hasDefault) ==
    IF subscriberPc[ch] = "closed" THEN "panic"
    ELSE IF Len(stageChannels[ch]) < stageChannelCapacity THEN "sent"
    ELSE IF hasDefault THEN "dropped"
    ELSE "blocked"

\* the sends of setStage, one per channel of the map
sendOutcomes == [ch \in subscribers |-> chanSend(ch, TRUE)]

\* the send of subscribe, on the channel just made
firstSendOutcome == IF 0 < stageChannelCapacity THEN "sent" ELSE "blocked"

CallSetStage(newStage) ==
    /\ pc = "methods"
    /\ setStage(newStage)
    /\ callResult' = [method |-> "setStage", outcomes |-> sendOutcomes]
    /\ UNCHANGED <<program, allSessions, want, pc, plansByChild,
                   candidateJointSessions, jointIndex, chosenJointSessions,
                   jointActivitySet, individualPool, individualIndex, run,
                   priorResult, overlapArgs, overlapResult, callArgs,
                   rawSessions, renderVars, jobPc, processError, resultJSON,
                   subscribers, subscriberPc, received>>

CallSubscribe(ch) ==
    /\ pc = "methods"
    /\ subscriberPc[ch] = "idle"
    /\ stageChannels' = [stageChannels EXCEPT ![ch] = <<currentStage>>]
    /\ subscribers' = subscribers \cup {ch}
    /\ subscriberPc' = [subscriberPc EXCEPT ![ch] = "reading"]
    /\ callResult' = [method |-> "subscribe",
                      outcomes |-> [c \in {ch} |-> firstSendOutcome]]
    /\ UNCHANGED <<program, allSessions, want, pc, plansByChild,
                   candidateJointSessions, jointIndex, chosenJointSessions,
                   jointActivitySet, individualPool, individualIndex, run,
                   priorResult, overlapArgs, overlapResult, callArgs,
                   rawSessions, renderVars, currentStage, jobPc, processError,
                   resultJSON, received>>

CallUnsubscribe(ch) ==
    /\ pc = "methods"
    /\ subscriberPc[ch] = "reading"
    /\ unsubscribe(ch)
    /\ callResult' = [method |-> "unsubscribe", outcomes |-> <<>>]
    /\ UNCHANGED <<program, allSessions, want, pc, plansByChild,
                   candidateJointSessions, jointIndex, chosenJointSessions,
                   jointActivitySet, individualPool, individualIndex, run,
                   priorResult, overlapArgs, overlapResult, callArgs,
                   rawSessions, renderVars, currentStage, jobPc, processError,
                   resultJSON, stageChannels, received>>

(***************************************************************************)
(* Inputs                                                                  *)
(***************************************************************************)
Activities == {"Clay", "Rocket"}

\* want.csv: Alice is 9 and Peter is 7; per activity one priority word each
AliceWords == {"High", "No"}

PeterWords == {"High", "Low", "No"}

WantFiles ==
    { [childAgesByName |-> [Alice |-> 9, Peter |-> 7],
       childNamesSorted |-> <<"Alice", "Peter">>,
       sessionPriorityByChild |->
           [t \in Activities |-> [Alice |-> row[t][1], Peter |-> row[t][2]]]] :
      row \in [Activities -> AliceWords \X PeterWords] }

Session(title, dates, days, clock, ages, availability, priorities) ==
    [ActivityName |-> title,
     startDate |-> dates[1],
     endDate |-> dates[2],
     DaysOfWeek |-> days,
     startClockMinutes |-> clock[1],
     endClockMinutes |-> clock[2],
     MinimumAgeInclusive |-> ages[1],
     MaximumAgeExclusive |-> ages[2],
     AvailabilityText |-> availability,
     InterestedPriorities |-> priorities]

noAgeBounds == <<NilInt, NilInt>>

\* a weekly morning offering, and the offerings that differ from it in one
\* attribute: the dates, the weekdays, the clock window, the age bounds or the
\* availability
SessionShapes ==
    { <<dates, <<"Mon">>, <<540, 720>>, noAgeBounds, textAvailable>> :
        dates \in {<<1, 1>>, <<1, 2>>, <<2, 2>>} }
    \cup { <<(<<1, 2>>), <<>>, <<540, 720>>, noAgeBounds, textAvailable>>,
           <<(<<1, 2>>), <<"Mon">>, <<0, 0>>, noAgeBounds, textAvailable>>,
           <<(<<1, 2>>), <<"Mon">>, <<540, 720>>, <<(<<6>>), (<<9>>)>>,
             textAvailable>>,
           <<(<<1, 2>>), <<"Mon">>, <<540, 720>>, noAgeBounds, textFull>>,
           <<(<<1, 2>>), <<"Mon">>, <<540, 720>>, noAgeBounds,
             textStartingSoon>> }

SessionPool(w) ==
    { Session(title, x[1], x[2], x[3], x[4], x[5], prioritiesMap(w, title)) :
      title \in Activities, x \in SessionShapes }

RECURSIVE SeqsUpTo(_, _)
SeqsUpTo(S, n) ==
    IF n = 0 THEN {<<>>}
    ELSE LET shorter == SeqsUpTo(S, n - 1)
         IN  shorter \cup { Append(q, x) : q \in { r \in shorter : Len(r) = n - 1 },
                                           x \in S }

\* the arguments sessionsOverlap is called with: every combination of dates,
\* weekdays and clock window
OverlapSessions ==
    { Session("Clay", dates, days, clock, noAgeBounds, textAvailable, <<>>) :
      dates \in {<<1, 1>>, <<1, 2>>, <<2, 2>>},
      days \in {<<>>, <<"Mon">>, <<"Tue">>, <<"Mon", "Wed">>},
      clock \in {<<0, 0>>, <<540, 720>>, <<780, 840>>, <<840, 900>>} }

Init ==
    /\ program \in Programs
    /\ want \in WantFiles
    /\ allSessions \in SeqsUpTo(SessionPool(want), MaxSessions)
    /\ pc = "start"
    /\ plansByChild = <<>>
    /\ candidateJointSessions = <<>>
    /\ jointIndex = 1
    /\ chosenJointSessions = <<>>
    /\ jointActivitySet = {}
    /\ individualPool = <<>>
    /\ individualIndex = 1
    /\ run = 1
    /\ renderIdle
    /\ webIdle
    /\ priorResult = <<>>
    /\ overlapArgs = <<>>
    /\ overlapResult = <<>>
    /\ callArgs = <<>>
    /\ callResult = <<>>
    /\ rawSessions = <<>>

InitOverlap ==
    /\ program \in Programs
    /\ want \in { w \in WantFiles :
                    \A t \in Activities :
                        w.sessionPriorityByChild[t] = [Alice |-> "No", Peter |-> "No"] }
    /\ allSessions = <<>>
    /\ pc = "overlap"
    /\ plansByChild = <<>>
    /\ candidateJointSessions = <<>>
    /\ jointIndex = 1
    /\ chosenJointSessions = <<>>
    /\ jointActivitySet = {}
    /\ individualPool = <<>>
    /\ individualIndex = 1
    /\ run = 1
    /\ renderIdle
    /\ webIdle
    /\ priorResult = <<>>
    /\ overlapArgs \in OverlapSessions \X OverlapSessions
    /\ overlapResult = <<>>
    /\ callArgs = <<>>
    /\ callResult = <<>>
    /\ rawSessions = <<>>

\* the ages and the age bounds ageIsWithinBounds is called with
MaxAge == 13

AgePointers == {NilInt} \cup { <<n>> : n \in 0..MaxAge }

InitAge ==
    /\ program \in Programs
    /\ want \in { w \in WantFiles :
                    \A t \in Activities :
                        w.sessionPriorityByChild[t] = [Alice |-> "No", Peter |-> "No"] }
    /\ allSessions = <<>>
    /\ pc = "age"
    /\ plansByChild = <<>>
    /\ candidateJointSessions = <<>>
    /\ jointIndex = 1
    /\ chosenJointSessions = <<>>
    /\ jointActivitySet = {}
    /\ individualPool = <<>>
    /\ individualIndex = 1
    /\ run = 1
    /\ renderIdle
    /\ webIdle
    /\ priorResult = <<>>
    /\ overlapArgs = <<>>
    /\ overlapResult = <<>>
    /\ callArgs \in (0..MaxAge) \X AgePointers \X AgePointers
    /\ callResult = <<>>
    /\ rawSessions = <<>>

\* want.csv with no child columns, and with columns for Peter (7) only
WantFilesFewChildren ==
    { [childAgesByName |-> <<>>,
       childNamesSorted |-> <<>>,
       sessionPriorityByChild |-> <<>>] }
    \cup { [childAgesByName |-> [Peter |-> 7],
             childNamesSorted |-> <<"Peter">>,
             sessionPriorityByChild |-> [t \in Activities |-> [Peter |-> row[t]]]] :
           row \in [Activities -> PeterWords] }

InitFewChildren ==
    /\ program \in Programs
    /\ want \in WantFilesFewChildren
    /\ allSessions \in SeqsUpTo(SessionPool(want), MaxSessions)
    /\ pc = "start"
    /\ plansByChild = <<>>
    /\ candidateJointSessions = <<>>
    /\ jointIndex = 1
    /\ chosenJointSessions = <<>>
    /\ jointActivitySet = {}
    /\ individualPool = <<>>
    /\ individualIndex = 1
    /\ run = 1
    /\ renderIdle
    /\ webIdle
    /\ priorResult = <<>>
    /\ overlapArgs = <<>>
    /\ overlapResult = <<>>
    /\ callArgs = <<>>
    /\ callResult = <<>>
    /\ rawSessions = <<>>

\* three activities that Alice rates High and Peter rates High, Medium or
\* Low, one session of each on Mondays 540-720, each over any of the date
\* ranges
ThreeActivities == <<"Clay", "Rocket", "Chess">>

WantFilesThree ==
    { [childAgesByName |-> [Alice |-> 9, Peter |-> 7],
       childNamesSorted |-> <<"Alice", "Peter">>,
       sessionPriorityByChild |->
           [t \in {"Clay", "Rocket", "Chess"} |->
               [Alice |-> "High", Peter |-> row[t]]]] :
      row \in [{"Clay", "Rocket", "Chess"} -> {"High", "Medium", "Low"}] }

DateRanges == {<<1, 1>>, <<1, 2>>, <<2, 2>>}

InitThree ==
    /\ program \in Programs
    /\ want \in WantFilesThree
    /\ allSessions \in
           { [i \in DOMAIN ThreeActivities |->
                 Session(ThreeActivities[i], dates[i], <<"Mon">>, <<540, 720>>,
                         noAgeBounds, textAvailable,
                         prioritiesMap(want, ThreeActivities[i]))] :
             dates \in [DOMAIN ThreeActivities -> DateRanges] }
    /\ pc = "start"
    /\ plansByChild = <<>>
    /\ candidateJointSessions = <<>>
    /\ jointIndex = 1
    /\ chosenJointSessions = <<>>
    /\ jointActivitySet = {}
    /\ individualPool = <<>>
    /\ individualIndex = 1
    /\ run = 1
    /\ renderIdle
    /\ webIdle
    /\ priorResult = <<>>
    /\ overlapArgs = <<>>
    /\ overlapResult = <<>>
    /\ callArgs = <<>>
    /\ callResult = <<>>
    /\ rawSessions = <<>>

\* plans that start empty and a pool of weekly morning sessions, for calls of
\* addSession
InitAdd ==
    /\ program \in Programs
    /\ want \in { w \in WantFiles :
                    \A t \in Activities :
                        w.sessionPriorityByChild[t] = [Alice |-> "No", Peter |-> "No"] }
    /\ allSessions \in
           SeqsUpTo({ Session(title, dates, <<"Mon">>, <<540, 720>>, noAgeBounds,
                              textAvailable, prioritiesMap(want, title)) :
                      title \in Activities, dates \in DateRanges }, MaxSessions)
    /\ pc = "add"
    /\ plansByChild = [c \in childNames |-> emptyPlan]
    /\ candidateJointSessions = <<>>
    /\ jointIndex = 1
    /\ chosenJointSessions = <<>>
    /\ jointActivitySet = {}
    /\ individualPool = <<>>
    /\ individualIndex = 1
    /\ run = 1
    /\ renderIdle
    /\ webIdle
    /\ priorResult = <<>>
    /\ overlapArgs = <<>>
    /\ overlapResult = <<>>
    /\ callArgs = <<>>
    /\ callResult = <<>>
    /\ rawSessions = <<>>

\* "09:00" and "12:00"
textNine == <<"0", "9", ":", "0", "0">>

textNoon == <<"1", "2", ":", "0", "0">>

\* the scraper's sessions: with or without a title, over a date range that
\* may end before it starts, on Mondays from 09:00 (540) to 12:00 (720)
RawSessions ==
    { [title |-> title,
       startDateUnix |-> dates[1],
       endDateUnix |-> dates[2],
       days |-> <<"Mon">>,
       startTime |-> textNine,
       endTime |-> textNoon,
       startMinutes |-> 540,
       endMinutes |-> 720,
       minAge |-> NilInt,
       maxAge |-> NilInt,
       availability |-> textAvailable] :
      title \in Activities \cup {""},
      dates \in DateRanges \cup {<<2, 1>>} }

InitTransform ==
    /\ program \in Programs
    /\ want \in WantFiles
    /\ rawSessions \in SeqsUpTo(RawSessions, MaxSessions)
    /\ allSessions = <<>>
    /\ pc = "raw"
    /\ plansByChild = <<>>
    /\ candidateJointSessions = <<>>
    /\ jointIndex = 1
    /\ chosenJointSessions = <<>>
    /\ jointActivitySet = {}
    /\ individualPool = <<>>
    /\ individualIndex = 1
    /\ run = 1
    /\ renderIdle
    /\ webIdle
    /\ priorResult = <<>>
    /\ overlapArgs = <<>>
    /\ overlapResult = <<>>
    /\ callArgs = <<>>
    /\ callResult = <<>>

\* sheets with a row whose first cell, the session's name, is empty, next to
\* the rows of Clay and Rocket
WantFilesUntitled ==
    { [childAgesByName |-> [Alice |-> 9, Peter |-> 7],
       childNamesSorted |-> <<"Alice", "Peter">>,
       sessionPriorityByChild |->
           [t \in Activities \cup {""} |->
               [Alice |-> row[t][1], Peter |-> row[t][2]]]] :
      row \in { r \in [Activities \cup {""} -> AliceWords \X PeterWords] :
                  \A t \in Activities : r[t] \in {<<"High", "High">>, <<"No", "Low">>} } }

InitUntitled ==
    /\ program \in Programs
    /\ want \in WantFilesUntitled
    /\ rawSessions \in SeqsUpTo(RawSessions, MaxSessions)
    /\ allSessions = <<>>
    /\ pc = "raw"
    /\ plansByChild = <<>>
    /\ candidateJointSessions = <<>>
    /\ jointIndex = 1
    /\ chosenJointSessions = <<>>
    /\ jointActivitySet = {}
    /\ individualPool = <<>>
    /\ individualIndex = 1
    /\ run = 1
    /\ renderIdle
    /\ webIdle
    /\ priorResult = <<>>
    /\ overlapArgs = <<>>
    /\ overlapResult = <<>>
    /\ callArgs = <<>>
    /\ callResult = <<>>

\* sessions on Mondays or Tuesdays from 540 to 720, one of them for ages 6 to
\* 9 only: pools in which both phases seat sessions and in which sessions
\* with the same start date can be seated together
IndividualShapes ==
    { <<dates, <<"Mon">>, noAgeBounds>> : dates \in {<<1, 1>>, <<1, 2>>, <<2, 2>>} }
    \cup { <<(<<1, 2>>), <<"Tue">>, noAgeBounds>>,
           <<(<<1, 2>>), <<"Mon">>, <<(<<6>>), (<<9>>)>>>> }

InitIndividual ==
    /\ program \in Programs
    /\ want \in WantFiles
    /\ allSessions \in
           SeqsUpTo({ Session(title, x[1], x[2], <<540, 720>>, x[3],
                              textAvailable, prioritiesMap(want, title)) :
                      title \in Activities, x \in IndividualShapes },
                    MaxSessions)
    /\ pc = "start"
    /\ plansByChild = <<>>
    /\ candidateJointSessions = <<>>
    /\ jointIndex = 1
    /\ chosenJointSessions = <<>>
    /\ jointActivitySet = {}
    /\ individualPool = <<>>
    /\ individualIndex = 1
    /\ run = 1
    /\ renderIdle
    /\ webIdle
    /\ priorResult = <<>>
    /\ overlapArgs = <<>>
    /\ overlapResult = <<>>
    /\ callArgs = <<>>
    /\ callResult = <<>>
    /\ rawSessions = <<>>

FileConditions == {"unreadable", "malformed", "ok"}

InitCli ==
    /\ program = "cmd/schedule"
    /\ want \in { w \in WantFiles :
                    \A t \in Activities :
                        w.sessionPriorityByChild[t] = [Alice |-> "No", Peter |-> "No"] }
    /\ allSessions = <<>>
    /\ pc = "main"
    /\ plansByChild = <<>>
    /\ candidateJointSessions = <<>>
    /\ jointIndex = 1
    /\ chosenJointSessions = <<>>
    /\ jointActivitySet = {}
    /\ individualPool = <<>>
    /\ individualIndex = 1
    /\ run = 1
    /\ renderIdle
    /\ webIdle
    /\ priorResult = <<>>
    /\ overlapArgs = <<>>
    /\ overlapResult = <<>>
    /\ callArgs \in [sessionsFlag : BOOLEAN, wantFlag : BOOLEAN,
                      jsonFlag : BOOLEAN, jsonCreatable : BOOLEAN,
                      wantFile : FileConditions, sessionsFile : FileConditions]
    /\ callResult = <<>>
    /\ rawSessions = <<>>

\* uploadHandler has made the job (newProcessingJob) and started processJob
InitJob ==
    /\ program = "pkg/optimizer"
    /\ want \in { w \in WantFiles :
                    \A t \in Activities :
                        w.sessionPriorityByChild[t] = [Alice |-> "No", Peter |-> "No"] }
    /\ allSessions = <<>>
    /\ pc = "web"
    /\ plansByChild = <<>>
    /\ candidateJointSessions = <<>>
    /\ jointIndex = 1
    /\ chosenJointSessions = <<>>
    /\ jointActivitySet = {}
    /\ individualPool = <<>>
    /\ individualIndex = 1
    /\ run = 1
    /\ renderIdle
    /\ priorResult = <<>>
    /\ overlapArgs = <<>>
    /\ overlapResult = <<>>
    /\ callArgs \in [csv : {"unreadable", "noCampColumn", "noCamps", "ok"}]
    /\ callResult = <<>>
    /\ rawSessions = <<>>
    /\ currentStage = stageVerifyingLiteral
    /\ jobPc = "notStarted"
    /\ processError = "nil"
    /\ resultJSON = "nil"
    /\ subscribers = {}
    /\ stageChannels = [ch \in Streams |-> <<>>]
    /\ subscriberPc = [ch \in Streams |-> "idle"]
    /\ received = [ch \in Streams |-> <<>>]

\* the texts of the day names, of a word that is no day name and of nothing
dayText(name) ==
    CASE name = "Mon" -> <<"M", "o", "n">>
      [] name = "Tue" -> <<"T", "u", "e">>
      [] name = "Wed" -> <<"W", "e", "d">>
      [] name = "Thu" -> <<"T", "h", "u">>
      [] name = "Fri" -> <<"F", "r", "i">>
      [] name = "Sat" -> <<"S", "a", "t">>
      [] name = "Sun" -> <<"S", "u", "n">>
      [] name = "Daily" -> <<"D", "a", "i", "l", "y">>
      [] OTHER -> <<>>

designWeek == <<"Mon", "Tue", "Wed", "Thu", "Fri", "Sat", "Sun">>

DayNames == { designWeek[k] : k \in 1..Len(designWeek) }

\* a segment of a day token: one word (a day, another word, or nothing) or
\* a range between two words
DaySegments ==
    { <<a>> : a \in DayNames \cup {"Daily", ""} }
    \cup { <<a, b>> : a, b \in DayNames }
    \cup { <<"Daily", "Mon">>, <<"Mon", "Daily">> }

\* day tokens of one segment, and of two with some first segments
DayTokenDesigns ==
    { <<x>> : x \in DaySegments }
    \cup { <<x, y>> : x \in { <<"Sat">>, <<"">>, <<"Sat", "Mon">>, <<"Daily", "Mon">> },
                      y \in { <<"Wed">>, <<"">>, <<"Wed", "Tue">>, <<"Mon", "Daily">> } }

\* the text of a segment and of a token, written with or without blanks
segmentText(segment, blanks) ==
    IF Len(segment) = 1 THEN dayText(segment[1])
    ELSE dayText(segment[1])
            \o (IF blanks THEN <<" ", "-", " ">> ELSE <<"-">>)
            \o dayText(segment[2])

tokenText(design, blanks) ==
    IF Len(design) = 1 THEN segmentText(design[1], blanks)
    ELSE segmentText(design[1], blanks)
            \o (IF blanks THEN <<",", " ">> ELSE <<",">>)
            \o segmentText(design[2], blanks)

InitExpand ==
    /\ program = "pkg/scraper"
    /\ want \in { w \in WantFiles :
                    \A t \in Activities :
                        w.sessionPriorityByChild[t] = [Alice |-> "No", Peter |-> "No"] }
    /\ allSessions = <<>>
    /\ pc = "expandDayTokens"
    /\ plansByChild = <<>>
    /\ candidateJointSessions = <<>>
    /\ jointIndex = 1
    /\ chosenJointSessions = <<>>
    /\ jointActivitySet = {}
    /\ individualPool = <<>>
    /\ individualIndex = 1
    /\ run = 1
    /\ renderIdle
    /\ webIdle
    /\ priorResult = <<>>
    /\ overlapArgs = <<>>
    /\ overlapResult = <<>>
    /\ callArgs \in { [design |-> d, token |-> tokenText(d, blanks)] :
                        d \in DayTokenDesigns, blanks \in BOOLEAN }
    /\ callResult = <<>>
    /\ rawSessions = <<>>

\* sessions of the one-phase scheduler: without a start date (day 0) or on
\* day 1 or 2; from 9:00 to 12:00, from 10:00 to 11:00 or from 12:30 to 13:30;
\* without a minimum age or from 5 years
SingleSessions ==
    { [Activity |-> title,
       startDay |-> day,
       startMinutes |-> clock[1],
       endMinutes |-> clock[2],
       MinAge |-> minAge,
       MaxAge |-> NilInt,
       Availability |-> textAvailable,
       Interested |-> title] :
      title \in Activities,
      day \in 0..2,
      clock \in {<<540, 720>>, <<600, 660>>, <<750, 810>>},
      minAge \in {NilInt, <<5>>} }

InitSingle ==
    /\ program = "cmd/schedule (one phase)"
    /\ want \in WantFiles
    /\ allSessions \in
           { [k \in 1..Len(q) |->
                 [q[k] EXCEPT !.Interested = prioritiesMap(want, q[k].Activity)]] :
             q \in SeqsUpTo(SingleSessions, MaxSessions) }
    /\ pc = "singleStart"
    /\ plansByChild = <<>>
    /\ candidateJointSessions = <<>>
    /\ jointIndex = 1
    /\ chosenJointSessions = <<>>
    /\ jointActivitySet = {}
    /\ individualPool = <<>>
    /\ individualIndex = 1
    /\ run = 1
    /\ renderIdle
    /\ webIdle
    /\ priorResult = <<>>
    /\ overlapArgs = <<>>
    /\ overlapResult = <<>>
    /\ callArgs = <<>>
    /\ callResult = <<>>
    /\ rawSessions = <<>>

\* a job with processJob started and one request for its schedule to come
InitSchedule ==
    /\ program = "pkg/optimizer"
    /\ want \in { w \in WantFiles :
                    \A t \in Activities :
                        w.sessionPriorityByChild[t] = [Alice |-> "No", Peter |-> "No"] }
    /\ allSessions = <<>>
    /\ pc = "web"
    /\ plansByChild = <<>>
    /\ candidateJointSessions = <<>>
    /\ jointIndex = 1
    /\ chosenJointSessions = <<>>
    /\ jointActivitySet = {}
    /\ individualPool = <<>>
    /\ individualIndex = 1
    /\ run = 1
    /\ renderIdle
    /\ priorResult = <<>>
    /\ overlapArgs = <<>>
    /\ overlapResult = <<>>
    /\ callArgs \in [csv : {"unreadable", "noCampColumn", "noCamps", "ok"}]
    /\ callResult = [handler |-> "idle", status |-> 0, body |-> "", raced |-> FALSE]
    /\ rawSessions = <<>>
    /\ currentStage = stageVerifyingLiteral
    /\ jobPc = "notStarted"
    /\ processError = "nil"
    /\ resultJSON = "nil"
    /\ subscribers = {}
    /\ stageChannels = [ch \in Streams |-> <<>>]
    /\ subscriberPc = [ch \in Streams |-> "idle"]
    /\ received = [ch \in Streams |-> <<>>]

\* a job just made by newProcessingJob, for calls of its methods
InitJobMethods ==
    /\ program = "pkg/optimizer"
    /\ want \in { w \in WantFiles :
                    \A t \in Activities :
                        w.sessionPriorityByChild[t] = [Alice |-> "No", Peter |-> "No"] }
    /\ allSessions = <<>>
    /\ pc = "methods"
    /\ plansByChild = <<>>
    /\ candidateJointSessions = <<>>
    /\ jointIndex = 1
    /\ chosenJointSessions = <<>>
    /\ jointActivitySet = {}
    /\ individualPool = <<>>
    /\ individualIndex = 1
    /\ run = 1
    /\ renderIdle
    /\ priorResult = <<>>
    /\ overlapArgs = <<>>
    /\ overlapResult = <<>>
    /\ callArgs = <<>>
    /\ callResult = [method |-> "new", outcomes |-> <<>>]
    /\ rawSessions = <<>>
    /\ currentStage = stageVerifyingLiteral
    /\ jobPc = "none"
    /\ processError = "nil"
    /\ resultJSON = "nil"
    /\ subscribers = {}
    /\ stageChannels = [ch \in Streams |-> <<>>]
    /\ subscriberPc = [ch \in Streams |-> "idle"]
    /\ received = [ch \in Streams |-> <<>>]

Next ==
    \/ BuildJointCandidates
    \/ JointWalkStep
    \/ BuildIndividualPool
    \/ IndividualWalkStep

NextRerun == Next \/ Rerun

NextOverlap == CallSessionsOverlap

\* one run of buildOptimizedPlans
Spec == Init /\ [][Next]_vars

\* two runs on the same inputs
SpecRerun == Init /\ [][NextRerun]_vars

\* calls of sessionsOverlap
SpecOverlap == InitOverlap /\ [][NextOverlap]_vars

\* one run of buildOptimizedPlans for a sheet with no child or one child
SpecFewChildren == InitFewChildren /\ [][Next]_vars

\* one run of buildOptimizedPlans for the pools of three activities
SpecScores == InitThree /\ [][Next]_vars

\* one run of buildOptimizedPlans on the pools of InitIndividual
SpecIndividual == InitIndividual /\ [][Next]_vars

\* buildOptimizedPlans and the rendering of its result
NextRender == Next \/ Render

SpecRender == InitIndividual /\ [][NextRender]_vars

\* a web job and its event streams
NextJob ==
    \/ processJob
    \/ \E ch \in Streams : Subscribe(ch)
    \/ \E ch \in Streams : ReadStage(ch)
    \/ \E ch \in Streams : Unsubscribe(ch)

SpecJob == InitJob /\ [][NextJob]_vars

\* the same, with the goroutines scheduled fairly: processJob goes on, and a
\* stream that can read or leave does so; a client need not ever connect
SpecJobFair ==
    /\ InitJob
    /\ [][NextJob]_vars
    /\ WF_vars(processJob)
    /\ \A ch \in Streams : WF_vars(ReadStage(ch)) /\ WF_vars(Unsubscribe(ch))

\* a call of expandDayTokens
NextExpand ==
    \/ ExpandEnter
    \/ ExpandSegment
    \/ ExpandRangeStep
    \/ ExpandReturn

\* the call goes on until it returns
SpecExpand == InitExpand /\ [][NextExpand]_vars /\ WF_vars(NextExpand)

\* a run of the one-phase scheduler
NextSingle ==
    \/ BuildAssignmentPool
    \/ GreedyWalkStep
    \/ PrintSchedules

SpecSingle == InitSingle /\ [][NextSingle]_vars

\* a web job, its event streams and a request for its schedule
NextSchedule ==
    \/ processJobStoring
    \/ \E ch \in Streams : Subscribe(ch)
    \/ \E ch \in Streams : ReadStage(ch)
    \/ \E ch \in Streams : Unsubscribe(ch)
    \/ ServeScheduleTest
    \/ ServeScheduleRespond

SpecSchedule == InitSchedule /\ [][NextSchedule]_vars

\* calls of the job's methods in any order
NextJobMethods ==
    \/ \E newStage \in {stageScrapingLiteral, stageDoneLiteral} :
           CallSetStage(newStage)
    \/ \E ch \in Streams : CallSubscribe(ch)
    \/ \E ch \in Streams : CallUnsubscribe(ch)

SpecJobMethods == InitJobMethods /\ [][NextJobMethods]_vars

\* a run of the command cmd/schedule
NextCli ==
    \/ MainParseFlags
    \/ MainLoadWantFile
    \/ MainTransformRawSessions
    \/ MainOutput

SpecCli == InitCli /\ [][NextCli]_vars

\* main / Optimize from the scraper's sessions on
NextTransform == TransformSessions \/ Next

SpecTransform == InitTransform /\ [][NextTransform]_vars

\* the same, with sheets that have a row without a session name
SpecUntitled == InitUntitled /\ [][NextTransform]_vars

\* calls of addSession
NextAdd == CallAddSession

SpecAdd == InitAdd /\ [][NextAdd]_vars

\* calls of ageIsWithinBounds
NextAge == CallAgeIsWithinBounds

SpecAge == InitAge /\ [][NextAge]_vars

(***************************************************************************)
(* The design's own terms (sections 4.2 to 4.4 of the specification), used *)
(* to state the properties below                                           *)
(***************************************************************************)
sessionIds == 1..Len(allSessions)

planOf(c) == plansByChild[c].scheduledSessions

inPlan(c, s) == \E k \in 1..Len(planOf(c)) : planOf(c)[k] = s

inJointList(s) ==
    \E k \in 1..Len(chosenJointSessions) : chosenJointSessions[k] = s

DesignScore(word) ==
    CASE word = "High" -> 3 [] word = "Medium" -> 2 [] word = "Low" -> 1
      [] OTHER -> 0

DesignAgeOk(session, c) ==
    /\ want.childAgesByName[c] >=
           (IF session.MinimumAgeInclusive = NilInt THEN 0
            ELSE session.MinimumAgeInclusive[1])
    /\ \/ session.MaximumAgeExclusive = NilInt
       \/ want.childAgesByName[c] < session.MaximumAgeExclusive[1]

DesignOpenText(text) ==
    LET t == TrimSpace(ToLower(text))
    IN  \/ t \in {<<>>, textAvailable, textStartingSoonLower}
        \/ Contains(t, textSpace) /\ Contains(t, textLeft)

\* the availability texts of the pools, and those of them that are open
poolTexts == {textAvailable, textFull, textStartingSoon}

designOpenTexts == { text \in poolTexts : DesignOpenText(text) }

DesignOpen(text) ==
    IF text \in poolTexts THEN text \in designOpenTexts
    ELSE DesignOpenText(text)

DesignInterested(session, c) ==
    /\ c \in DOMAIN session.InterestedPriorities
    /\ DesignScore(session.InterestedPriorities[c]) > 0

DesignEligible(session, c) ==
    DesignAgeOk(session, c) /\ DesignOpen(session.AvailabilityText)
        /\ DesignInterested(session, c)

datesOverlap(A, B) == A.endDate >= B.startDate /\ B.endDate >= A.startDate

shareWeekday(A, B) ==
    \E i \in 1..Len(A.DaysOfWeek), j \in 1..Len(B.DaysOfWeek) :
        A.DaysOfWeek[i] = B.DaysOfWeek[j]

clockUnspecified(A) == A.startClockMinutes = 0 /\ A.endClockMinutes = 0

withinBuffer(A, B) ==
    ~(\/ A.endClockMinutes + bufferMinutesBetweenSessions <= B.startClockMinutes
      \/ B.endClockMinutes + bufferMinutesBetweenSessions <= A.startClockMinutes)

DesignConflict(A, B) ==
    /\ datesOverlap(A, B)
    /\ A.DaysOfWeek = <<>> \/ B.DaysOfWeek = <<>> \/ shareWeekday(A, B)
    /\ clockUnspecified(A) \/ clockUnspecified(B) \/ withinBuffer(A, B)

(***************************************************************************)
(* Properties                                                              *)
(***************************************************************************)

\* C1: at every point of a run, and so when buildOptimizedPlans returns, no
\* child's plan holds two sessions with the same activity name (in both
\* programs).
C1_ActivityUniqueness ==
    \A c \in DOMAIN plansByChild :
        \A i, j \in 1..Len(planOf(c)) :
            i # j => allSessions[planOf(c)[i]].ActivityName
                        # allSessions[planOf(c)[j]].ActivityName

\* a finished run in which a child holds one offering of an activity and was
\* refused a second, eligible offering of it that overlaps with nothing the
\* first one could block
C1_Witness ==
    /\ finished
    /\ \E c \in DOMAIN plansByChild : \E a, b \in sessionIds :
          /\ a # b
          /\ allSessions[a].ActivityName = allSessions[b].ActivityName
          /\ inPlan(c, a) /\ ~inPlan(c, b)
          /\ DesignEligible(allSessions[b], c)
          /\ ~datesOverlap(allSessions[a], allSessions[b])

\* C2: when buildOptimizedPlans has finished, no child's plan holds two
\* distinct sessions that conflict in the sense of section 4.3: the dates
\* overlap, the weekday sets intersect (an empty set intersects every set) and
\* the clock windows are closer than the buffer (a (0,0) window counts as
\* overlapping).
C2_NoSelfConflict ==
    finished =>
        \A c \in DOMAIN plansByChild :
            \A i, j \in 1..Len(planOf(c)) :
                i # j => ~DesignConflict(allSessions[planOf(c)[i]],
                                         allSessions[planOf(c)[j]])

C4_EligibleEverywhere ==
    \A c \in DOMAIN plansByChild :
        \A k \in 1..Len(planOf(c)) :
            DesignEligible(allSessions[planOf(c)[k]], c)

\* a finished run in which a session with maxAge 9 that Alice (aged 9) wants
\* is in Peter's plan and not in hers
C4_Witness ==
    /\ finished
    /\ \E s \in sessionIds :
          /\ allSessions[s].MaximumAgeExclusive = <<9>>
          /\ DesignInterested(allSessions[s], "Alice")
          /\ inPlan("Peter", s)
          /\ ~inPlan("Alice", s)

\* C5: in the individual phase no candidate has the activity of a joint
\* session, and no session that a plan holds besides the joint ones has such
\* an activity.
C5_JointFirstDominance ==
    /\ pc = "individualWalk" =>
          \A k \in 1..Len(individualPool) :
              allSessions[individualPool[k].sessionInstance].ActivityName
                  \notin activitiesOf(chosenJointSessions)
    /\ \A c \in DOMAIN plansByChild :
          \A k \in 1..Len(planOf(c)) :
              ~inJointList(planOf(c)[k]) =>
                  allSessions[planOf(c)[k]].ActivityName
                      \notin activitiesOf(chosenJointSessions)

\* the individual pool has been built while the session pool holds, next to a
\* joint session, another open offering of the same activity that some child
\* is eligible for and that does not overlap with the joint one
C5_Witness ==
    /\ pc = "individualWalk"
    /\ \E j, s \in sessionIds :
          /\ inJointList(j) /\ s # j
          /\ allSessions[s].ActivityName = allSessions[j].ActivityName
          /\ ~datesOverlap(allSessions[s], allSessions[j])
          /\ \E c \in childNames : DesignEligible(allSessions[s], c)

\* C6: a second run on the same session list and the same preference sheet
\* returns the joint list and the plans of the first run.
C6_SameResultOnRerun ==
    (finished /\ run = 2) =>
        priorResult = [joint |-> chosenJointSessions, plans |-> plansByChild]

\* C7: in both phases, candidates with equal score and equal start date are
\* walked in ascending ingest position.
C7_TiesInIngestOrder ==
    /\ \A i, j \in 1..Len(candidateJointSessions) :
          LET a == candidateJointSessions[i]
              b == candidateJointSessions[j]
          IN  (/\ i < j
               /\ a.totalScore = b.totalScore
               /\ allSessions[a.sessionInstance].startDate
                     = allSessions[b.sessionInstance].startDate)
              => a.sessionInstance < b.sessionInstance
    /\ \A i, j \in 1..Len(individualPool) :
          LET a == individualPool[i]
              b == individualPool[j]
          IN  (/\ i < j
               /\ a.priorityScore = b.priorityScore
               /\ allSessions[a.sessionInstance].startDate
                     = allSessions[b.sessionInstance].startDate)
              => a.sessionInstance <= b.sessionInstance

\* C8: within a phase, a candidate a with the score of candidate b and an
\* earlier start date stands before b in the walk, and every candidate the
\* walk has passed is seated unless it does not fit: so a is tested, and
\* seated if it fits, before b is tested.
C8_EarlierStartFirst ==
    /\ \A i, j \in 1..Len(candidateJointSessions) :
          LET a == candidateJointSessions[i]
              b == candidateJointSessions[j]
          IN  (/\ a.totalScore = b.totalScore
               /\ allSessions[a.sessionInstance].startDate
                     < allSessions[b.sessionInstance].startDate)
              => i < j
    /\ \A i, j \in 1..Len(individualPool) :
          LET a == individualPool[i]
              b == individualPool[j]
          IN  (/\ a.priorityScore = b.priorityScore
               /\ allSessions[a.sessionInstance].startDate
                     < allSessions[b.sessionInstance].startDate)
              => i < j
    /\ pc = "jointWalk" =>
          \A i \in 1..Len(candidateJointSessions) :
              i < jointIndex =>
                  \/ inJointList(candidateJointSessions[i].sessionInstance)
                  \/ \E c \in DOMAIN plansByChild :
                        ~sessionFitsInPlan(plansByChild[c],
                             candidateJointSessions[i].sessionInstance)
    /\ pc = "individualWalk" =>
          \A i \in 1..Len(individualPool) :
              i < individualIndex =>
                  \/ inPlan(individualPool[i].childName,
                            individualPool[i].sessionInstance)
                  \/ ~sessionFitsInPlan(plansByChild[individualPool[i].childName],
                                        individualPool[i].sessionInstance)

\* the joint walk has tested and seated two candidates of equal score, the
\* one with the earlier start date first although it comes later in the input
C8_Witness ==
    /\ pc = "jointWalk"
    /\ Len(candidateJointSessions) = 2
    /\ jointIndex = 3
    /\ Len(chosenJointSessions) = 2
    /\ candidateJointSessions[1].totalScore = candidateJointSessions[2].totalScore
    /\ allSessions[candidateJointSessions[1].sessionInstance].startDate
          < allSessions[candidateJointSessions[2].sessionInstance].startDate
    /\ candidateJointSessions[1].sessionInstance
          > candidateJointSessions[2].sessionInstance
    /\ chosenJointSessions[1] = candidateJointSessions[1].sessionInstance

\* C9: sessionsOverlap returns true for two sessions whose dates overlap and
\* whose clock windows are within the buffer when one of them has no
\* weekdays (in both programs).
C9_EmptyWeekdaysIntersect ==
    overlapResult # <<>> =>
        LET A == overlapArgs[1]
            B == overlapArgs[2]
        IN  (/\ datesOverlap(A, B)
             /\ withinBuffer(A, B)
             /\ A.DaysOfWeek = <<>> \/ B.DaysOfWeek = <<>>)
            => overlapResult[1] = TRUE

\* C10: sessionsOverlap returns true for two sessions whose dates overlap and
\* that share a weekday when one of them has the clock window (0,0), whatever
\* the clock window of the other.  (Stated for sessions that name a common
\* weekday, so that the rule for empty weekday lists plays no part.)
C10_UnspecifiedClockOverlaps ==
    overlapResult # <<>> =>
        LET A == overlapArgs[1]
            B == overlapArgs[2]
        IN  (/\ datesOverlap(A, B)
             /\ shareWeekday(A, B)
             /\ clockUnspecified(A) \/ clockUnspecified(B))
            => overlapResult[1] = TRUE

\* C11: for two sessions whose dates overlap, that share a weekday and whose
\* clock windows are both specified, sessionsOverlap returns true exactly when
\* neither session ends at least bufferMinutesBetweenSessions (120) minutes
\* before the other starts: a gap of exactly 120 minutes is no conflict, a
\* smaller gap is (in both programs).
C11_BufferIsExact ==
    overlapResult # <<>> =>
        LET A == overlapArgs[1]
            B == overlapArgs[2]
        IN  (/\ datesOverlap(A, B)
             /\ shareWeekday(A, B)
             /\ ~clockUnspecified(A)
             /\ ~clockUnspecified(B))
            => (overlapResult[1] =
                   ~(\/ B.startClockMinutes - A.endClockMinutes >= 120
                     \/ A.startClockMinutes - B.endClockMinutes >= 120))

\* sessionsOverlap has returned false for [540,720] and [840,900] on a shared
\* weekday in overlapping dates: the gap is exactly 120 minutes
C11_Witness ==
    /\ overlapResult = <<FALSE>>
    /\ datesOverlap(overlapArgs[1], overlapArgs[2])
    /\ shareWeekday(overlapArgs[1], overlapArgs[2])
    /\ overlapArgs[1].startClockMinutes = 540
    /\ overlapArgs[1].endClockMinutes = 720
    /\ overlapArgs[2].startClockMinutes = 840
    /\ overlapArgs[2].endClockMinutes = 900

\* C12: sessionsOverlap is symmetric, sessionsOverlap(A, B) =
\* sessionsOverlap(B, A) for all A and B, and it is true of two identical
\* sessions, for every session with startDate <= endDate and startMinute <=
\* endMinute, those with an empty weekday list included (in both programs).
C12_SymmetricAndReflexive ==
    overlapResult # <<>> =>
        LET A == overlapArgs[1]
            B == overlapArgs[2]
        IN  /\ overlapResult[1] = overlapIn(program, B, A)
            /\ (/\ A = B
                /\ A.startDate <= A.endDate
                /\ A.startClockMinutes <= A.endClockMinutes)
               => overlapResult[1] = TRUE

\* C13: ageIsWithinBounds(age, min, max) is true exactly when age is at least
\* the minimum (0 when absent) and below the maximum (no limit when absent):
\* the minimum is inclusive, the maximum exclusive, so an age equal to the
\* maximum is refused and the age one below it is accepted.
C13_AgeBoundsHalfOpen ==
    (pc = "age" /\ callResult # <<>>) =>
        LET age == callArgs[1]
            effectiveMin == IF callArgs[2] = NilInt THEN 0 ELSE callArgs[2][1]
        IN  callResult[1] =
                (/\ age >= effectiveMin
                 /\ callArgs[3] = NilInt \/ age < callArgs[3][1])

\* ageIsWithinBounds has refused age 9 for the bounds 6 and 9
C13_Witness ==
    /\ pc = "age"
    /\ callArgs = <<9, <<6>>, <<9>>>>
    /\ callResult = <<FALSE>>

\* C14: when the preference sheet has no children, buildOptimizedPlans returns
\* an empty result whatever the session pool is: the joint list is empty and
\* there is no plan of any child (in both programs).
C14_NoChildrenEmptyResult ==
    (want.childNamesSorted = <<>> /\ finished) =>
        /\ chosenJointSessions = <<>>
        /\ DOMAIN plansByChild = {}

\* C15: when the preference sheet has exactly one child, the joint list holds
\* exactly the sessions of that child's plan when buildOptimizedPlans returns:
\* the individual phase adds nothing (in both programs).
C15_OneChildPlanIsJointList ==
    (Len(want.childNamesSorted) = 1 /\ finished) =>
        LET c == want.childNamesSorted[1]
        IN  /\ \A s \in sessionIds : inPlan(c, s) <=> inJointList(s)
            /\ Len(planOf(c)) = Len(chosenJointSessions)

\* a run for Peter alone has returned: a session is seated jointly, and the
\* individual walk has tested another session and left it out
C15_Witness ==
    /\ want.childNamesSorted = <<"Peter">>
    /\ finished
    /\ Len(chosenJointSessions) = 1
    /\ Len(individualPool) = 1
    /\ planOf("Peter") = chosenJointSessions

\* C16: a session for which some child is not eligible (age out of bounds, or
\* score 0) never enters the joint list and sits only in plans of children
\* who are eligible for it; when it is the only session of the pool and one
\* of the two children alone is eligible, it ends in exactly that child's
\* plan (in both programs).
C16_NotForAllOnlyIndividual ==
    pc # "start" =>
        /\ \A s \in sessionIds :
               (\E c \in childNames : ~DesignEligible(allSessions[s], c)) =>
                   /\ ~inJointList(s)
                   /\ \A c \in childNames :
                          inPlan(c, s) => DesignEligible(allSessions[s], c)
        /\ (finished /\ Len(allSessions) = 1) =>
               \A c \in childNames :
                   (/\ DesignEligible(allSessions[1], c)
                    /\ \E d \in childNames : ~DesignEligible(allSessions[1], d))
                   => /\ inPlan(c, 1)
                      /\ \A d \in childNames \ {c} : ~inPlan(d, 1)
                      /\ chosenJointSessions = <<>>

\* the run has returned for a pool of one session with ages 6 to 9 that both
\* children rate High: Alice (9) is too old, and the session is in Peter's plan
\* only
C16_Witness ==
    /\ finished
    /\ Len(allSessions) = 1
    /\ allSessions[1].MaximumAgeExclusive = <<9>>
    /\ allSessions[1].InterestedPriorities["Alice"] = "High"
    /\ allSessions[1].InterestedPriorities["Peter"] = "High"
    /\ planOf("Peter") = <<1>>
    /\ planOf("Alice") = <<>>
    /\ chosenJointSessions = <<>>

\* the design's total score of a session: the sum of the children's scores
RECURSIVE DesignTotal(_, _)
DesignTotal(session, names) ==
    IF names = <<>> THEN 0
    ELSE DesignScore(IF Head(names) \in DOMAIN session.InterestedPriorities
                     THEN session.InterestedPriorities[Head(names)] ELSE "No")
         + DesignTotal(session, Tail(names))

\* the position of session s among the joint candidates, 0 when it is none
jointPosition(s) ==
    IF \E k \in 1..Len(candidateJointSessions) :
           candidateJointSessions[k].sessionInstance = s
    THEN CHOOSE k \in 1..Len(candidateJointSessions) :
             candidateJointSessions[k].sessionInstance = s
    ELSE 0

\* a and b are joint candidates the joint walk has both tested, they
\* conflict, and a has the higher total score
testedConflictingPair(a, b) ==
    /\ jointPosition(a) > 0
    /\ jointPosition(b) > 0
    /\ jointPosition(a) < jointIndex
    /\ jointPosition(b) < jointIndex
    /\ overlapIn(program, allSessions[a], allSessions[b])
    /\ candidateJointSessions[jointPosition(a)].totalScore
          > candidateJointSessions[jointPosition(b)].totalScore

\* C17: the joint candidates are walked in non-increasing order of total
\* score, the total being the sum over the children of High 3, Medium 2,
\* Low 1; of two conflicting joint candidates with different totals the
\* higher one is tested first, the two are never both seated, and the higher
\* one is seated unless it does not fit the plans when its turn comes (it
\* stays unfit afterwards, as plans only grow) (in both programs).
C17_HigherScoreTestedFirst ==
    pc # "start" =>
        /\ \A k \in 1..Len(candidateJointSessions) :
               candidateJointSessions[k].totalScore =
                   DesignTotal(allSessions[candidateJointSessions[k].sessionInstance],
                               want.childNamesSorted)
        /\ \A i, j \in 1..Len(candidateJointSessions) :
               i < j => candidateJointSessions[i].totalScore
                           >= candidateJointSessions[j].totalScore
        /\ \A a, b \in sessionIds :
               testedConflictingPair(a, b) =>
                   /\ jointPosition(a) < jointPosition(b)
                   /\ ~(inJointList(a) /\ inJointList(b))
                   /\ ~inJointList(a) =>
                          \E c \in childNames :
                              ~sessionFitsInPlan(plansByChild[c], a)

\* the joint walk has tested two conflicting candidates of totals 5 (High and
\* Medium) and 4 (High and Low): the first is seated, the second is not
C17_Witness ==
    /\ pc = "jointWalk"
    /\ \E a, b \in sessionIds :
           /\ testedConflictingPair(a, b)
           /\ candidateJointSessions[jointPosition(a)].totalScore = 5
           /\ candidateJointSessions[jointPosition(b)].totalScore = 4
           /\ inJointList(a)
           /\ ~inJointList(b)

\* C17 as the claim words it: of two conflicting joint candidates with
\* different totals, once both are tested, the higher one is seated and the
\* lower one is not.
C17_HigherSeatedLowerSkipped ==
    pc # "start" =>
        \A a, b \in sessionIds :
            testedConflictingPair(a, b) => inJointList(a) /\ ~inJointList(b)

\* what holds in the state a step of the run leads to: during the joint walk
\* every plan is the joint list; afterwards every plan starts with the joint
\* list, and no individual candidate that conflicts with a jointly seated
\* session is in its child's plan
phaseState ==
    /\ pc = "jointWalk" =>
           \A c \in childNames : planOf(c) = chosenJointSessions
    /\ pc = "individualWalk" =>
           /\ \A c \in childNames :
                  /\ Len(planOf(c)) >= Len(chosenJointSessions)
                  /\ SubSeq(planOf(c), 1, Len(chosenJointSessions))
                         = chosenJointSessions
           /\ \A i \in 1..Len(individualPool) :
                  (\E k \in 1..Len(chosenJointSessions) :
                       overlapIn(program, allSessions[chosenJointSessions[k]],
                                 allSessions[individualPool[i].sessionInstance]))
                  => ~inPlan(individualPool[i].childName,
                             individualPool[i].sessionInstance)

\* the phases follow one another and none is entered again; the joint list
\* is final once the individual walk has begun
phaseStep ==
    /\ pc = "start" => pc' \in {"start", "jointWalk"}
    /\ pc = "jointWalk" => pc' \in {"jointWalk", "individualWalk"}
    /\ pc = "individualWalk" =>
           /\ pc' = "individualWalk"
           /\ chosenJointSessions' = chosenJointSessions

\* C18: a run passes once through the joint phase and then the individual
\* phase, never back; every joint add comes before any individual add, so
\* while joint candidates are tested every plan holds joint sessions only;
\* an individual candidate that conflicts with a jointly seated session
\* (Rocket with Clay for Peter) is not seated (in both programs).
C18_JointPhaseThenIndividual == [][phaseStep /\ phaseState']_vars

\* the run has returned: Clay is seated jointly, Rocket was an individual
\* candidate for Peter, it conflicts with Clay, and Peter's plan holds Clay
\* only
C18_Witness ==
    /\ finished
    /\ Len(chosenJointSessions) = 1
    /\ allSessions[chosenJointSessions[1]].ActivityName = "Clay"
    /\ \E i \in 1..Len(individualPool) :
           /\ individualPool[i].childName = "Peter"
           /\ allSessions[individualPool[i].sessionInstance].ActivityName = "Rocket"
           /\ overlapIn(program, allSessions[chosenJointSessions[1]],
                        allSessions[individualPool[i].sessionInstance])
    /\ planOf("Peter") = chosenJointSessions
    /\ planOf("Alice") = chosenJointSessions

\* C19: when addSession is called for a session that does not fit the plan
\* (sessionFitsInPlan is false for it), the call ends with a fatal
\* InvariantViolation and the plan is left as it was (in both programs).
C19_AddRefusesUnfitSession ==
    (pc = "add" /\ callArgs # <<>>) =>
        LET c == callArgs[1]
            session == callArgs[2]
            planBefore == callArgs[3]
        IN  ~sessionFitsInPlan(planBefore, session) =>
                /\ callResult[Len(callResult)] = "InvariantViolation"
                /\ plansByChild[c] = planBefore

\* C20: a session whose start date is after its end date is dropped when the
\* scraper's sessions are transformed: it is never a joint or an individual
\* candidate and never in the joint list or in a child's plan (in both
\* programs).
C20_InvertedDatesDropped ==
    pc \notin {"raw", "start"} =>
        \A s \in sessionIds :
            allSessions[s].startDate > allSessions[s].endDate =>
                /\ jointPosition(s) = 0
                /\ \A i \in 1..Len(individualPool) :
                       individualPool[i].sessionInstance # s
                /\ ~inJointList(s)
                /\ \A c \in childNames : ~inPlan(c, s)

\* the entries of an emitted list are in ascending start date, entries with
\* the same start date in ascending position in the input
sortedByDateThenId(list) ==
    \A i, j \in 1..Len(list) :
        i < j =>
            \/ allSessions[list[i].session].startDate
                  < allSessions[list[j].session].startDate
            \/ /\ allSessions[list[i].session].startDate
                     = allSessions[list[j].session].startDate
               /\ list[i].session < list[j].session

\* C21: the emitted joint list and every emitted child list are sorted
\* ascending by startDate, sessions with the same startDate in ascending
\* ingest position, for every input (in every renderer).
C21_OutputSortedByDateThenId ==
    pc = "rendered" =>
        /\ sortedByDateThenId(exportJoint)
        /\ \A c \in DOMAIN exportChildren : sortedByDateThenId(exportChildren[c])

\* the sessions of an emitted list
sessionsOf(list) == { list[k].session : k \in 1..Len(list) }

\* C30: in the rendered output, for every child the emitted child list
\* together with the joint list holds exactly the sessions of the child's
\* plan; the plan entries left out of the child's list are the joint sessions
\* themselves, and no activity is both in the joint list and in a child's
\* list (in every renderer).
C30_ChildListPlusJointIsPlan ==
    pc = "rendered" =>
        \A c \in DOMAIN exportChildren :
            /\ sessionsOf(exportChildren[c]) \cup sessionsOf(exportJoint)
                   = { s \in sessionIds : inPlan(c, s) }
            /\ Len(exportChildren[c]) + Len(exportJoint) = Len(planOf(c))
            /\ \A s \in sessionIds :
                   (inPlan(c, s) /\ s \notin sessionsOf(exportChildren[c]))
                   => s \in sessionsOf(exportJoint)
            /\ \A i \in 1..Len(exportChildren[c]), j \in 1..Len(exportJoint) :
                   exportChildren[c][i].Activity # exportJoint[j].Activity

\* rendered: Clay is in the joint list and left out of Peter's list, which
\* holds Rocket, while Peter's plan holds both
C30_Witness ==
    /\ pc = "rendered"
    /\ Len(exportJoint) = 1
    /\ exportJoint[1].Activity = "Clay"
    /\ Len(exportChildren["Peter"]) = 1
    /\ exportChildren["Peter"][1].Activity = "Rocket"
    /\ Len(planOf("Peter")) = 2
    /\ exportChildren["Alice"] = <<>>

\* C22: the command cmd/schedule ends with a nonzero status exactly when an
\* input file it is given cannot be opened or is not understood by its
\* reader (a sessions file that is not JSON, a sheet that is not CSV), and
\* with status 0 otherwise.
C22_NonzeroIffInputUnusable ==
    pc = "exited" =>
        ((callResult[1] # 0) <=>
            (/\ callArgs.sessionsFlag
             /\ callArgs.wantFlag
             /\ \/ callArgs.wantFile # "ok"
                \/ callArgs.sessionsFile # "ok"))

\* C23: for a job that reaches the stage done, every event stream that has
\* subscribed and stays connected is in the end sent the stage done, and its
\* serveEvents loop ends, however the calls of setStage fall between the
\* stream's reads and however slowly it reads (under fair scheduling).
C23_DoneReachesSubscriber ==
    \A ch \in Streams :
        (subscriberPc[ch] = "reading") ~>
            (/\ subscriberPc[ch] = "closed"
             /\ received[ch] # <<>>
             /\ received[ch][Len(received[ch])] = stageDoneLiteral)

\* the stages in the order of the pipeline
designStageOrder == <<"verifying", "scraping", "optimizing", "done">>

stageRank(stage) ==
    CHOOSE k \in 1..Len(designStageOrder) : designStageOrder[k] = stage

\* C24: currentStage only moves forward along verifying, scraping,
\* optimizing, done: every change of it goes to the next stage, except the
\* jump to done after a failure of the verification, and done is final.
C24_StageMovesForward ==
    [][currentStage' # currentStage =>
          /\ currentStage \in {designStageOrder[k] : k \in 1..3}
          /\ currentStage' \in {designStageOrder[k] : k \in 1..4}
          /\ \/ stageRank(currentStage') = stageRank(currentStage) + 1
             \/ /\ currentStage' = "done"
                /\ callArgs.csv # "ok"
                /\ jobPc = "failed"]_vars

\* a failed verification has jumped from verifying to done, and a stream
\* has seen the two stages
C24_Witness ==
    /\ jobPc = "returned"
    /\ currentStage = "done"
    /\ callArgs.csv = "noCampColumn"
    /\ \E ch \in Streams : received[ch] = <<"verifying", "done">>

\* C25: a raw record without a title is rejected by transformRawSessions and
\* by transformScraperSessions: no session with an empty activity name is
\* ever a joint candidate, an individual candidate or seated in a plan.
C25_UntitledNeverCandidateOrSeated ==
    \A s \in sessionIds :
        allSessions[s].ActivityName = "" =>
            /\ \A k \in 1..Len(candidateJointSessions) :
                   candidateJointSessions[k].sessionInstance # s
            /\ \A k \in 1..Len(individualPool) :
                   individualPool[k].sessionInstance # s
            /\ \A c \in DOMAIN plansByChild : ~inPlan(c, s)

\* the joint candidate under test, while the joint walk is not over
jointCandidateUnderTest == candidateJointSessions[jointIndex].sessionInstance

\* C26: a joint candidate that does not fit some child's plan is added to no
\* plan and not to the joint list; one that fits every plan is appended to
\* every plan and to the joint list; so when the joint phase ends every
\* child's plan holds exactly the joint list, and its activities.
C26_JointAllOrNothing ==
    [][/\ (pc = "jointWalk" /\ jointIndex <= Len(candidateJointSessions)) =>
              IF \A c \in childNames :
                     sessionFitsInPlan(plansByChild[c], jointCandidateUnderTest)
              THEN /\ chosenJointSessions' =
                          Append(chosenJointSessions, jointCandidateUnderTest)
                   /\ \A c \in childNames :
                          plansByChild'[c].scheduledSessions =
                              Append(planOf(c), jointCandidateUnderTest)
              ELSE /\ chosenJointSessions' = chosenJointSessions
                   /\ plansByChild' = plansByChild
       /\ (pc = "jointWalk" /\ pc' = "individualWalk") =>
              \A c \in childNames :
                  /\ plansByChild'[c].scheduledSessions = chosenJointSessions'
                  /\ plansByChild'[c].enrolledActivitiesSet =
                         { allSessions[chosenJointSessions'[k]].ActivityName :
                             k \in 1..Len(chosenJointSessions') }]_vars

\* the joint phase has ended after two candidates, the first seated in both
\* plans, the second refused by both and seated in none
C26_Witness ==
    /\ pc = "individualWalk"
    /\ individualIndex = 1
    /\ Len(candidateJointSessions) = 2
    /\ chosenJointSessions = <<candidateJointSessions[1].sessionInstance>>
    /\ \A c \in childNames : planOf(c) = chosenJointSessions
    /\ \A c \in childNames :
          ~sessionFitsInPlan(plansByChild[c],
                             candidateJointSessions[2].sessionInstance)

\* plan p is the beginning of plan q
planIsPrefix(p, q) ==
    /\ Len(p.scheduledSessions) <= Len(q.scheduledSessions)
    /\ SubSeq(q.scheduledSessions, 1, Len(p.scheduledSessions)) = p.scheduledSessions
    /\ p.enrolledActivitiesSet \subseteq q.enrolledActivitiesSet

\* C27: a step of the individual walk for (session, child) either leaves
\* every plan as it is or appends that session to that child's plan and puts
\* its activity into that child's enrolled set; it changes no other child's
\* plan and not the joint list; and no step of either phase takes a session
\* out of a plan or moves one.
C27_IndividualStepFrame ==
    [][/\ (pc = "individualWalk" /\ individualIndex <= Len(individualPool)) =>
              LET s == individualPool[individualIndex].sessionInstance
                  child == individualPool[individualIndex].childName
              IN  /\ chosenJointSessions' = chosenJointSessions
                  /\ \A d \in childNames \ {child} :
                         plansByChild'[d] = plansByChild[d]
                  /\ \/ plansByChild'[child] = plansByChild[child]
                     \/ /\ plansByChild'[child].scheduledSessions =
                               Append(planOf(child), s)
                        /\ plansByChild'[child].enrolledActivitiesSet =
                               plansByChild[child].enrolledActivitiesSet
                                   \cup {allSessions[s].ActivityName}
                        /\ ~inPlan(child, s)
       /\ \A c \in DOMAIN plansByChild :
              /\ c \in DOMAIN plansByChild'
              /\ planIsPrefix(plansByChild[c], plansByChild'[c])]_vars

\* a finished run with a joint session, in which the individual walk has
\* appended a session of his own to Peter's plan and left Alice's plan, the
\* joint list, as it was
C27_Witness ==
    /\ finished
    /\ Len(chosenJointSessions) = 1
    /\ Len(individualPool) = 1
    /\ individualPool[1].childName = "Peter"
    /\ planOf("Peter") =
          Append(chosenJointSessions, individualPool[1].sessionInstance)
    /\ planOf("Alice") = chosenJointSessions

\* C28: when the run has finished, the plans are maximal: for every child c
\* and every session s that c is eligible for, that is not in c's plan and
\* whose activity is not a joint activity, s does not fit c's plan.
C28_FinalPlansMaximal ==
    finished =>
        \A c \in childNames : \A s \in sessionIds :
            (/\ DesignEligible(allSessions[s], c)
             /\ ~inPlan(c, s)
             /\ \A k \in 1..Len(chosenJointSessions) :
                    allSessions[chosenJointSessions[k]].ActivityName
                        # allSessions[s].ActivityName)
            => ~sessionFitsInPlan(plansByChild[c], s)

\* a finished run without joint sessions in which Peter holds one session and
\* was refused another that he is eligible for, rated Low, of another activity
C28_Witness ==
    /\ finished
    /\ chosenJointSessions = <<>>
    /\ \E s, t \in sessionIds :
          /\ planOf("Peter") = <<t>>
          /\ s # t
          /\ DesignEligible(allSessions[s], "Peter")
          /\ allSessions[s].InterestedPriorities["Peter"] = "Low"
          /\ allSessions[s].ActivityName # allSessions[t].ActivityName

\* the score the design gives session s for child c
designScoreOf(s, c) ==
    DesignScore(IF c \in DOMAIN allSessions[s].InterestedPriorities
                THEN allSessions[s].InterestedPriorities[c] ELSE "")

\* C29: whenever the individual walk refuses a candidate (s, c), every
\* session of c's plan that blocks it, by having its activity or by
\* conflicting with it, is a joint session or was seated for c with a score
\* not below the score of s for c.
C29_BlockedOnlyByNoWorse ==
    (/\ pc = "individualWalk"
     /\ individualIndex <= Len(individualPool)
     /\ ~sessionFitsInPlan(
            plansByChild[individualPool[individualIndex].childName],
            individualPool[individualIndex].sessionInstance))
    => LET s == individualPool[individualIndex].sessionInstance
           c == individualPool[individualIndex].childName
       IN  \A k \in 1..Len(planOf(c)) :
               LET b == planOf(c)[k]
               IN  (\/ allSessions[b].ActivityName = allSessions[s].ActivityName
                    \/ overlapIn(program, allSessions[b], allSessions[s]))
                   => \/ inJointList(b)
                      \/ designScoreOf(b, c) >= designScoreOf(s, c)

\* Peter's candidate rated Low is about to be refused because of a session
\* rated High that was seated for him alone, not jointly
C29_Witness ==
    /\ pc = "individualWalk"
    /\ individualIndex <= Len(individualPool)
    /\ individualPool[individualIndex].childName = "Peter"
    /\ designScoreOf(individualPool[individualIndex].sessionInstance, "Peter") = 1
    /\ ~sessionFitsInPlan(plansByChild["Peter"],
                          individualPool[individualIndex].sessionInstance)
    /\ chosenJointSessions = <<>>
    /\ Len(planOf("Peter")) = 1
    /\ designScoreOf(planOf("Peter")[1], "Peter") = 3

\* C31: whenever the job's stage is done, an outcome is recorded: resultJSON
\* is set (so that serveSchedule answers with it, not with 404) or
\* processError is not nil.
C31_DoneHasOutcome ==
    currentStage = "done" => (resultJSON # "nil" \/ processError # "nil")

\* the stages a stream has read so far, followed by those waiting in its
\* channel
observed(ch) == received[ch] \o stageChannels[ch]

\* C32: the stages a stream reads from its channel, the first being the
\* stage current when it subscribed, are in pipeline order: none of them
\* comes after a later stage of the pipeline, however subscribe falls
\* between the calls of setStage.
C32_StagesInPipelineOrder ==
    \A ch \in Streams :
        \A i, j \in 1..Len(observed(ch)) :
            i < j => stageRank(observed(ch)[i]) <= stageRank(observed(ch)[j])

\* one stream subscribed before the first setStage and has read verifying
\* twice, the other subscribed while the job was scraping, and both have
\* read on in order
C32_Witness ==
    /\ received["stream1"] = <<"verifying", "verifying", "scraping", "optimizing">>
    /\ received["stream2"] = <<"scraping", "optimizing", "done">>

\* C33: in every interleaving of setStage, subscribe and unsubscribe on one
\* job, no channel of the map is closed, so setStage never sends on a closed
\* channel, and no send of setStage or subscribe waits inside the critical
\* section: each is sent at once or dropped.
C33_NoSendOnClosedNoBlocking ==
    /\ \A ch \in subscribers : subscriberPc[ch] # "closed"
    /\ \A ch \in DOMAIN callResult.outcomes :
          callResult.outcomes[ch] \in {"sent", "dropped"}
    /\ \A ch \in Streams : Len(stageChannels[ch]) <= 4

\* setStage has just run while one stream had left (its channel closed) and
\* the other, which reads nothing, had a full channel: the send was dropped
C33_Witness ==
    /\ callResult.method = "setStage"
    /\ subscriberPc["stream1"] = "closed"
    /\ subscribers = {"stream2"}
    /\ callResult.outcomes = [ch \in {"stream2"} |-> "dropped"]

\* C34: every load of resultJSON by serveSchedule and every store to it by
\* processJob is made under the job's mutex, so that no load of a request
\* falls into a store that is under way.
C34_NoLoadDuringStore ==
    /\ ~callResult.raced
    /\ callResult.handler = "answered" /\ callResult.status = 200 =>
           callResult.body = "json"

\* C35: in the one-phase scheduler a session without minAge takes a child of
\* any age below its maxAge (a missing minimum counts as 0): every open
\* session without a lower bound is in the assignment pool for every child
\* who rates it above No and is below its maximum.
C35_NoMinimumAdmitsChild ==
    pc \in {"singleWalk", "singlePrinted"} =>
        \A s \in sessionIds : \A c \in childNames :
            (/\ allSessions[s].MinAge = NilInt
             /\ \/ allSessions[s].MaxAge = NilInt
                \/ want.childAgesByName[c] < allSessions[s].MaxAge[1]
             /\ DesignOpenText(allSessions[s].Availability)
             /\ c \in DOMAIN allSessions[s].Interested
             /\ DesignScore(allSessions[s].Interested[c]) > 0)
            => \E k \in 1..Len(individualPool) :
                   /\ individualPool[k].session = s
                   /\ individualPool[k].child = c

\* C36: after the walk of the one-phase scheduler no child's plan holds two
\* sessions that start on the same day and whose clock intervals overlap or
\* lie less than 30 minutes apart, in whichever order the two were walked.
C36_NoCloseSessionsOnOneDay ==
    (pc = "singlePrinted" \/ (pc = "singleWalk" /\ individualIndex > Len(individualPool))) =>
        \A c \in DOMAIN plansByChild :
            \A i, j \in 1..Len(plansByChild[c].scheduled) :
                LET a == allSessions[plansByChild[c].scheduled[i]]
                    b == allSessions[plansByChild[c].scheduled[j]]
                IN  (i # j /\ a.startDay = b.startDay) =>
                        \/ a.endMinutes + 30 <= b.startMinutes
                        \/ b.endMinutes + 30 <= a.startMinutes

designPos(day) == CHOOSE k \in 1..Len(designWeek) : designWeek[k] = day

\* the days from a to b in the order of the calendar, past Sunday if b comes
\* before a in the week
designRange(a, b) ==
    [k \in 1..(((designPos(b) - designPos(a) + 7) % 7) + 1) |->
        dayText(designWeek[((designPos(a) + k - 2) % 7) + 1])]

designSegmentDays(segment) ==
    IF Len(segment) = 2 THEN designRange(segment[1], segment[2])
    ELSE IF segment[1] = "" THEN <<>>
    ELSE <<dayText(segment[1])>>

designTokenDays(design) ==
    IF Len(design) = 1 THEN designSegmentDays(design[1])
    ELSE designSegmentDays(design[1]) \o designSegmentDays(design[2])

\* every range of the token lies between two day names
designRangesValid(design) ==
    \A k \in 1..Len(design) :
        Len(design[k]) = 2 =>
            design[k][1] \in DayNames /\ design[k][2] \in DayNames

\* C37: expandDayTokens returns for every day token; for a token whose
\* ranges lie between two weekday names it returns, for each range, the days
\* from the first to the last inclusive in the order of the calendar, going
\* on past Sunday when the last day comes before the first in the week
\* (Fri-Mon gives Fri, Sat, Sun, Mon); the loop over a range makes at most 7
\* passes.
C37_ExpandDayTokens ==
    /\ [](callResult # <<>> => callResult.iterations <= 7)
    /\ []((pc = "expanded" /\ designRangesValid(callArgs.design)) =>
              callResult.expanded = designTokenDays(callArgs.design))
    /\ <>(pc = "expanded")

\* the call for "Fri - Mon" has returned Fri, Sat, Sun, Mon after 4 passes
C37_Witness ==
    /\ pc = "expanded"
    /\ callArgs.token = <<"F", "r", "i", " ", "-", " ", "M", "o", "n">>
    /\ callResult.iterations = 4
    /\ callResult.expanded =
           << <<"F", "r", "i">>, <<"S", "a", "t">>, <<"S", "u", "n">>,
              <<"M", "o", "n">> >>

====
